---- MODULE Spec2Model ----
(***************************************************************************)
(* The EDGAR SEC MCP server (src/src/server.py), its error decorator       *)
(* (src/src/edgar_sec/utils/decorators.py), the EdgarClient facade         *)
(* (src/edgar_sec/client.py) and the command line (src/src/edgar_sec/      *)
(* run.py) as state machines.                                              *)
(*                                                                         *)
(* Spec    : one server process: app_lifespan, the tools and resources     *)
(*           (get_company_filings with its default page and page size)     *)
(*           called through their module-level names (as the tests do) or  *)
(*           through the handler the MCP server registered, and the        *)
(*           memoised _fetch_company_filings.                              *)
(* SpecPage: the server process with get_company_filings called over the   *)
(*           whole range of pages and page sizes.                          *)
(* SpecPE  : process_error applied to an arbitrary wrapped function.       *)
(* SpecCLI : one run of main() of the command line.                        *)
(* SpecWalk: a caller reading the filings of a company page by page.       *)
(* SpecFin : one call of EdgarClient.get_latest_financials.                *)
(* SpecFacade: the company-facing operations of EdgarClient, called in any *)
(*           order on one client.                                          *)
(* SpecConc: get_company_filings requests in flight at once.               *)
(***************************************************************************)
EXTENDS Integers, Sequences, FiniteSets, TLC

VARIABLES
    client_instance,  \* server.py:24, the module-level client handle
    cache,            \* the lru_cache of _fetch_company_filings, LRU first
    last,             \* the most recent call: what was called, what came back, what it evicted
    pe,               \* SpecPE: a wrapped function, its outcome, the wrapper's result
    cli,              \* SpecCLI: the state of one run of main()
    inflight,         \* SpecConc: the get_company_filings requests in flight
    walk              \* SpecWalk: a caller reading the filings of a company page by page

vars == <<client_instance, cache, last, pe, cli, inflight, walk>>

---------------------------------------------------------------------------
(* Bounds of the model.                                                    *)

\* longest filing list the backing source reports, in SpecPage
MaxFilings == 4
\* longest filing list the backing source reports, in Spec
MaxProcFilings == 2
\* largest page number requested
MaxPage == 3
\* pages requested go down to -MaxNegPage
MaxNegPage == 1
\* largest page size requested (0 is requested too)
MaxPageSize == 2
\* most rows a financial statement holds
MaxRows == 2
\* get_company_filings requests in flight at once
NumRequests == 2

---------------------------------------------------------------------------
(* Values.                                                                 *)

None == [class |-> "NoneType"]
TheClient == [class |-> "EdgarClient"]

\* Two strings naming the same company, and a second company.
Identifiers == {"AAPL", "0000320193", "MSFT"}

\* The identifiers requested in SpecPage.
PageIdentifiers == {"AAPL", "MSFT"}

\* edgar.Company(entity_identifier): the company an identifier resolves to.
CompanyOf(entity_identifier) ==
    IF entity_identifier \in {"AAPL", "0000320193"} THEN "Apple Inc." ELSE "Microsoft Corp"

TableTypes ==
    {"balance_sheet", "income_statement", "cash_flow_statement",
     "comprehensive_income", "equity", "cover_page"}

\* The table kinds requested in Spec, the first and the last the code tests for.
ProcTableTypes == {"balance_sheet", "cover_page"}

FailureTexts == {"connection reset", "no such company"}

Pages == (0 - MaxNegPage)..MaxPage
PageSizes == 0..MaxPageSize

Min(a, b) == IF a < b THEN a ELSE b
Max(a, b) == IF a > b THEN a ELSE b

Return(v) == [kind |-> "return", value |-> v]
Raise(e) == [kind |-> "raise", exc |-> e]

\* An argument left out: argparse's None.
NoArg == "<none>"

\* A Python list, and no arguments.
List(seq) == [list |-> seq]
NoArgs == [none |-> TRUE]

\* json.dumps(obj): the JSON text of obj, kept as the document it encodes.
JsonDumps(obj) == [json |-> obj]

---------------------------------------------------------------------------
(* Exceptions.                                                             *)

\* client.py:31-38. EdgarError(message, error_code = 500, error_traceback = "")
DefaultErrorCode == 500
InitErrorCode == 503

EdgarError(message, error_code, error_traceback) ==
    [type |-> "EdgarError", message |-> message,
     error_code |-> error_code, error_traceback |-> error_traceback]

\* An exception of a built-in type: it carries neither error_code nor error_traceback.
BuiltinError(type, message) == [type |-> type, message |-> message]

\* Exception types that derive from BaseException but not from Exception.
NotExceptionSubclass == {"KeyboardInterrupt", "SystemExit", "GeneratorExit"}
IsException(e) == e.type \notin NotExceptionSubclass

\* str(e)
Str(e) == e.message

\* getattr(e, name, default)
GetAttr(e, name, default) == IF name \in DOMAIN e THEN e[name] ELSE default

---------------------------------------------------------------------------
(* process_error, decorators.py:7-30.                                      *)

\* error_dict with the traceback field always left empty
error_dict_no_traceback(e) ==
    [error |-> TRUE,
     message |-> Str(e),
     code |-> GetAttr(e, "error_code", DefaultErrorCode),
     traceback |-> ""]

\* decorators.py:22-27, the envelope built from the caught exception
error_dict(e) ==
    [error |-> TRUE,
     message |-> Str(e),
     code |-> GetAttr(e, "error_code", DefaultErrorCode),
     traceback |-> GetAttr(e, "error_traceback", "")]

\* decorators.py:16-20, the line printed to sys.stderr
stderr_line(func, e) ==
    [func |-> func, type |-> e.type, message |-> Str(e), traceback |-> "format_exc"]

\* process_error that returns the envelope without printing anything
process_error_silent(func, r) ==
    IF r.out.kind = "raise" /\ IsException(r.out.exc)
    THEN [r EXCEPT !.out = Return(JsonDumps(error_dict(r.out.exc)))]
    ELSE r

\* decorators.py:11-28. r is what one run of the wrapped function did: its
\* outcome r.out and whatever else it reports. The wrapper lets a return
\* through, turns an Exception into the envelope and logs it, and lets
\* anything that is not an Exception propagate.
process_error(func, r) ==
    IF r.out.kind = "raise" /\ IsException(r.out.exc)
    THEN [r EXCEPT !.out = Return(JsonDumps(error_dict(r.out.exc))),
                   !.stderr = Append(r.stderr, stderr_line(func, r.out.exc))]
    ELSE r

---------------------------------------------------------------------------
(* What the library and the network do for one call of the facade.         *)

Failures == [kind : {"fail"}, text : FailureTexts]
Backing == {[kind |-> "ok"]} \cup Failures
BackingFilings(maxn) == [kind : {"ok"}, n : 0..maxn] \cup Failures
\* What may happen while EdgarClient.__init__ runs: the output directory
\* cannot be made ("mkdir"), the request for the ticker table fails with a
\* RequestException ("request"), or the table that came back cannot be read
\* as expected, which raises some other Exception ("other").
BackingInit ==
    {[kind |-> "ok"]}
    \cup [kind : {"request"}, text : FailureTexts]
    \cup {[kind |-> "other", text |-> "'cik'"]}
    \cup {[kind |-> "mkdir", text |-> "permission denied"]}

\* The attribute of the library's Financials object that get_latest_financials
\* reads for a table kind, client.py:253-264.
StatementAttr(table_type) ==
    CASE table_type = "balance_sheet" -> "balance_sheet"
      [] table_type = "income_statement" -> "income"
      [] table_type = "cash_flow_statement" -> "cashflow"
      [] table_type = "comprehensive_income" -> "comprehensive_income"
      [] table_type = "equity" -> "equity"
      [] table_type = "cover_page" -> "cover"

StatementAttrs == {StatementAttr(t) : t \in TableTypes}

\* company.financials or company.quarterly_financials as the library reports
\* it: absent (None), or present with every statement of `rows` rows but the
\* one named by `missing`, which is None.
NoFinancials == [present |-> FALSE, missing |-> "none", rows |-> 0]
FinancialsStates(maxr) ==
    {NoFinancials}
    \cup [present : {TRUE}, missing : StatementAttrs \cup {"none"}, rows : 0..maxr]

\* What the library does for one call of get_latest_financials: it fails, or
\* it reports the annual and the quarterly financials; to_dataframe says what
\* the Financials object itself answers to to_dataframe(), which only a call
\* with none of the six table kinds asks of it.
BackingFinancials(maxr) ==
    [kind : {"ok"}, annual : FinancialsStates(maxr), quarterly : FinancialsStates(maxr),
     to_dataframe : {"AttributeError"}]
    \cup Failures

FullFinancials == [present |-> TRUE, missing |-> "none", rows |-> 1]

\* The few of them the server process and the command line are run against.
ProcBackingFinancials ==
    {[kind |-> "ok", annual |-> FullFinancials, quarterly |-> NoFinancials,
      to_dataframe |-> d] : d \in {"AttributeError", "frame"}}
    \cup Failures

\* statement.to_dataframe(): the rows of one statement, indexed by line.
StatementFrame(company, period, attr, rows) ==
    [j \in 1..rows |->
        [index |-> [company |-> company, period |-> period, statement |-> attr, line |-> j],
         value |-> 100 * j]]

\* filing_date of the i-th filing, a datetime.date
FilingDate(i) == [year |-> 2020 + i, month |-> 3, day |-> 10 + i]

\* company.get_filings().to_pandas(): the rows the library reports, newest
\* first, isXBRL being 1 or 0 and the frame holding more columns than the
\* facade keeps.
FilingsFrame(company, n) ==
    [i \in 1..n |->
        [form |-> IF i % 2 = 1 THEN "10-K" ELSE "10-Q",
         filing_date |-> FilingDate(i),
         accession_number |-> <<company, i>>,
         isXBRL |-> i % 2,
         primaryDocument |-> "doc.htm"]]

---------------------------------------------------------------------------
(* EdgarClient, client.py:41-271.                                          *)

\* The prefix each facade operation puts before the text of a failure.
Prefix(method) ==
    CASE method = "get_valid_cik_ticker_data" -> "Failed to get valid CIK and ticker data: "
      [] method = "get_valid_forms_data" -> "Failed to get valid forms data: "
      [] method = "get_company_info" -> "Failed to get company info: "
      [] method = "get_company_name" -> "Failed to get company name: "
      [] method = "get_company_tickers" -> "Failed to get company tickers: "
      [] method = "get_company_sic_description" -> "Failed to get company SIC description: "
      [] method = "get_company_filings" -> "Failed to get company filings: "
      [] method = "get_latest_financials" -> "Failed to get company financials: "

\* Reraise that lets the original failure through unwrapped
Reraise_unwrapped(method, b) == Raise(BuiltinError("RuntimeError", b.text))

\* The except clause every facade operation ends with:
\*   except Exception as e: raise EdgarError(f"<prefix>{str(e)}", 500) from e
Reraise(method, b) == Raise(EdgarError(Prefix(method) \o b.text, 500, ""))

\* EdgarClient.__init__ with one except clause for every Exception
EdgarClient_init_one_clause(b) ==
    CASE b.kind = "ok" -> Return(TheClient)
      [] b.kind = "mkdir" -> Raise(BuiltinError("PermissionError", b.text))
      [] OTHER ->
            Raise(EdgarError("Unexpected error during initialization: " \o b.text, 500, ""))

\* client.py:51-82. The directory is made before the try (line 61), so its
\* failure leaves the constructor as it is; inside the try a RequestException
\* becomes EdgarError 503 (79-80) and any other Exception EdgarError 500 (81-82).
EdgarClient_init(b) ==
    CASE b.kind = "ok" -> Return(TheClient)
      [] b.kind = "mkdir" -> Raise(BuiltinError("PermissionError", b.text))
      [] b.kind = "request" ->
            Raise(EdgarError("Failed to initialize EDGAR client: " \o b.text, InitErrorCode, ""))
      [] b.kind = "other" ->
            Raise(EdgarError("Unexpected error during initialization: " \o b.text, 500, ""))

\* client.py:84-97
EdgarClient_get_valid_cik_ticker_data(b) ==
    IF b.kind = "fail" THEN Reraise("get_valid_cik_ticker_data", b)
    ELSE Return([records |-> "ticker_cik_df"])

\* client.py:99-111
EdgarClient_get_valid_forms_data(b) ==
    IF b.kind = "fail" THEN Reraise("get_valid_forms_data", b)
    ELSE Return([forms |-> "COMPANY_FORMS"])

\* client.py:113-131
EdgarClient_get_company_info(entity_identifier, b) ==
    IF b.kind = "fail" THEN Reraise("get_company_info", b)
    ELSE Return([to_dict |-> CompanyOf(entity_identifier)])

\* get_company_name of a facade that keeps the company its previous call
\* resolved and answers from it
EdgarClient_get_company_name_cached(entity_identifier, b) ==
    IF b.kind = "fail" THEN Reraise("get_company_name", b)
    ELSE IF last.via = "facade"
    THEN Return([name |-> CompanyOf(last.args.entity_identifier)])
    ELSE Return([name |-> CompanyOf(entity_identifier)])

\* client.py:133-150
EdgarClient_get_company_name(entity_identifier, b) ==
    IF b.kind = "fail" THEN Reraise("get_company_name", b)
    ELSE Return([name |-> CompanyOf(entity_identifier)])

\* client.py:152-169
EdgarClient_get_company_tickers(entity_identifier, b) ==
    IF b.kind = "fail" THEN Reraise("get_company_tickers", b)
    ELSE Return([tickers |-> CompanyOf(entity_identifier)])

\* client.py:171-188
EdgarClient_get_company_sic_description(entity_identifier, b) ==
    IF b.kind = "fail" THEN Reraise("get_company_sic_description", b)
    ELSE Return([sic_description |-> CompanyOf(entity_identifier)])

\* FilingRecord that keeps the row of the frame as the library reports it
FilingRecord_unfiltered(row) == row

\* client.py:211-215, one row of the frame as the facade returns it
FilingRecord(row) ==
    [form |-> row.form,
     filing_date |-> row.filing_date,
     accession_number |-> row.accession_number,
     isXBRL |-> (row.isXBRL = 1)]

\* client.py:190-217
EdgarClient_get_company_filings(entity_identifier, b) ==
    IF b.kind = "fail" THEN Reraise("get_company_filings", b)
    ELSE IF b.n = 0 THEN Return(List(<<>>))
    ELSE LET frame == FilingsFrame(CompanyOf(entity_identifier), b.n)
         IN  Return(List([i \in 1..b.n |-> FilingRecord(frame[i])]))

\* PeriodFinancials that reads the annual financials whatever annual is
PeriodFinancials_annual_only(annual, b) == b.annual

\* client.py:247-250
PeriodFinancials(annual, b) == IF annual THEN b.annual ELSE b.quarterly

\* client.py:266-268: reset_index makes the index a column named "index",
\* which rename turns into "label".
Labelled(df) == [j \in 1..Len(df) |-> [label |-> df[j].index, value |-> df[j].value]]

\* client.py:219-271
EdgarClient_get_latest_financials(entity_identifier, table_type, annual, b) ==
    IF b.kind = "fail" THEN Reraise("get_latest_financials", b)
    ELSE LET company == CompanyOf(entity_identifier)
             period == IF annual THEN "annual" ELSE "quarterly"
             financials == PeriodFinancials(annual, b)
         IN  IF ~financials.present THEN Return(List(<<>>))
             ELSE IF table_type \in TableTypes
             THEN LET attr == StatementAttr(table_type)
                      df == IF financials.missing = attr THEN <<>>
                            ELSE StatementFrame(company, period, attr, financials.rows)
                  IN  Return(List(IF df # <<>> THEN Labelled(df) ELSE <<>>))
             ELSE IF b.to_dataframe = "AttributeError"
             THEN Reraise("get_latest_financials",
                          [text |-> "'Financials' object has no attribute 'to_dataframe'"])
             ELSE LET df == StatementFrame(company, period, "financials", financials.rows)
                  IN  Return(List(IF df # <<>> THEN Labelled(df) ELSE <<>>))

---------------------------------------------------------------------------
(* The MCP server, server.py.                                              *)

\* server.py:73, 89, 111, 132, 153, 174, 194, 274
NotInitialized == EdgarError("EDGAR client not initialized", InitErrorCode, "")

\* One invocation of a facade method: what was called, what the backing
\* source did and what the method gave back.
FacadeCall(method, args, b, r) ==
    [method |-> method, args |-> args, backing |-> b, out |-> r]

\* One run of a function that touches neither the cache nor stderr.
Ran(out, calls) == [out |-> out, calls |-> calls, stderr |-> <<>>]

\* return json.dumps(client_instance.<method>(...), default=str)
Dumped(method, args, b, r) ==
    Ran(IF r.kind = "return" THEN Return(JsonDumps(r.value)) ELSE r,
        <<FacadeCall(method, args, b, r)>>)

\* server.py:63-74, the function body
get_valid_cik_ticker(ci, b) ==
    IF ci = None THEN Ran(Raise(NotInitialized), <<>>)
    ELSE Dumped("get_valid_cik_ticker_data", NoArgs, b,
                EdgarClient_get_valid_cik_ticker_data(b))

\* get_valid_forms without the check of client_instance
get_valid_forms_unguarded(ci, b) ==
    Dumped("get_valid_forms_data", NoArgs, b, EdgarClient_get_valid_forms_data(b))

\* server.py:79-90
get_valid_forms(ci, b) ==
    IF ci = None THEN Ran(Raise(NotInitialized), <<>>)
    ELSE Dumped("get_valid_forms_data", NoArgs, b, EdgarClient_get_valid_forms_data(b))

\* server.py:96-112
get_company_info(ci, entity_identifier, b) ==
    IF ci = None THEN Ran(Raise(NotInitialized), <<>>)
    ELSE Dumped("get_company_info", [entity_identifier |-> entity_identifier], b,
                EdgarClient_get_company_info(entity_identifier, b))

\* server.py:117-133
get_company_name(ci, entity_identifier, b) ==
    IF ci = None THEN Ran(Raise(NotInitialized), <<>>)
    ELSE Dumped("get_company_name", [entity_identifier |-> entity_identifier], b,
                EdgarClient_get_company_name(entity_identifier, b))

\* server.py:138-154
get_company_tickers(ci, entity_identifier, b) ==
    IF ci = None THEN Ran(Raise(NotInitialized), <<>>)
    ELSE Dumped("get_company_tickers", [entity_identifier |-> entity_identifier], b,
                EdgarClient_get_company_tickers(entity_identifier, b))

\* server.py:159-175
get_company_sic_description(ci, entity_identifier, b) ==
    IF ci = None THEN Ran(Raise(NotInitialized), <<>>)
    ELSE Dumped("get_company_sic_description", [entity_identifier |-> entity_identifier], b,
                EdgarClient_get_company_sic_description(entity_identifier, b))

\* server.py:245-278
get_latest_financials(ci, entity_identifier, table_type, annual, b) ==
    IF ci = None THEN Ran(Raise(NotInitialized), <<>>)
    ELSE Dumped("get_latest_financials",
                [entity_identifier |-> entity_identifier, table_type |-> table_type,
                 annual |-> annual], b,
                EdgarClient_get_latest_financials(entity_identifier, table_type, annual, b))

---------------------------------------------------------------------------
(* functools.lru_cache(maxsize=1) around _fetch_company_filings.           *)

\* lru_maxsize as lru_cache(maxsize=2) would set it
lru_maxsize_two == 1 + 1

\* server.py:178
lru_maxsize == 1

\* The cache is a sequence of [key, value] entries, least recently used first.
CacheKeys(c) == {c[i].key : i \in 1..Len(c)}
CacheIndex(c, key) == CHOOSE i \in 1..Len(c) : c[i].key = key
CacheValue(c, key) == c[CacheIndex(c, key)].value

RemoveAt(c, i) == SubSeq(c, 1, i - 1) \o SubSeq(c, i + 1, Len(c))

\* A hit moves the entry to the most recently used end.
LruTouch(c, key) ==
    LET i == CacheIndex(c, key) IN Append(RemoveAt(c, i), c[i])

\* LruStore of a cache that, once full, keeps what it holds
LruStore_keep_first(c, key, value) ==
    IF Len(c) >= lru_maxsize THEN c ELSE Append(c, [key |-> key, value |-> value])

\* A miss that returned stores the result, evicting the least recently used
\* entry when the cache is full.
LruStore(c, key, value) ==
    IF lru_maxsize = 0 THEN c
    ELSE IF Len(c) >= lru_maxsize
         THEN Append(Tail(c), [key |-> key, value |-> value])
         ELSE Append(c, [key |-> key, value |-> value])

\* fetch_body without the check of client_instance
fetch_body_unguarded(ci, entity_identifier, b) ==
    LET r == EdgarClient_get_company_filings(entity_identifier, b)
    IN  Ran(r, <<FacadeCall("get_company_filings", [entity_identifier |-> entity_identifier], b, r)>>)

\* server.py:179-195, the function body
fetch_body(ci, entity_identifier, b) ==
    IF ci = None THEN Ran(Raise(NotInitialized), <<>>)
    ELSE LET r == EdgarClient_get_company_filings(entity_identifier, b)
         IN  Ran(r, <<FacadeCall("get_company_filings", [entity_identifier |-> entity_identifier], b, r)>>)

\* _fetch_company_filings without the memoisation: the body runs every time
_fetch_company_filings_uncached(c, ci, entity_identifier, b) ==
    LET r == fetch_body(ci, entity_identifier, b)
    IN  [out |-> r.out, calls |-> r.calls, stderr |-> <<>>, cache |-> c]

\* _fetch_company_filings with the key normalised to the company: an entry
\* stored under another string of the same company answers the call
_fetch_company_filings_normalised(c, ci, entity_identifier, b) ==
    LET same == {k \in CacheKeys(c) : CompanyOf(k) = CompanyOf(entity_identifier)}
    IN  IF same # {}
        THEN [out |-> Return(CacheValue(c, CHOOSE k \in same : TRUE)), calls |-> <<>>,
              stderr |-> <<>>, cache |-> c]
        ELSE LET r == fetch_body(ci, entity_identifier, b)
             IN  [out |-> r.out, calls |-> r.calls, stderr |-> <<>>,
                  cache |-> IF r.out.kind = "return"
                            THEN LruStore(c, entity_identifier, r.out.value)
                            ELSE c]

\* _fetch_company_filings that remembers a failed fetch as an empty list
_fetch_company_filings_storing_failures(c, ci, entity_identifier, b) ==
    IF entity_identifier \in CacheKeys(c)
    THEN [out |-> Return(CacheValue(c, entity_identifier)), calls |-> <<>>,
          stderr |-> <<>>, cache |-> LruTouch(c, entity_identifier)]
    ELSE LET r == fetch_body(ci, entity_identifier, b)
         IN  [out |-> r.out, calls |-> r.calls, stderr |-> <<>>,
              cache |-> IF r.out.kind = "return"
                        THEN LruStore(c, entity_identifier, r.out.value)
                        ELSE LruStore(c, entity_identifier, List(<<>>))]

\* _fetch_company_filings that memoises an error as well and raises it again
\* for the same identifier
_fetch_company_filings_replaying_errors(c, ci, entity_identifier, b) ==
    IF entity_identifier \in CacheKeys(c)
    THEN LET v == CacheValue(c, entity_identifier)
         IN  [out |-> IF "exc" \in DOMAIN v THEN Raise(v.exc) ELSE Return(v),
              calls |-> <<>>, stderr |-> <<>>, cache |-> LruTouch(c, entity_identifier)]
    ELSE LET r == fetch_body(ci, entity_identifier, b)
         IN  [out |-> r.out, calls |-> r.calls, stderr |-> <<>>,
              cache |-> IF r.out.kind = "return"
                        THEN LruStore(c, entity_identifier, r.out.value)
                        ELSE LruStore(c, entity_identifier, [exc |-> r.out.exc])]

\* server.py:178-195, the memoised function: a hit returns the stored list
\* without running the body, a miss runs it and stores what it returns, and a
\* body that raises stores nothing.
_fetch_company_filings(c, ci, entity_identifier, b) ==
    IF entity_identifier \in CacheKeys(c)
    THEN [out |-> Return(CacheValue(c, entity_identifier)), calls |-> <<>>,
          stderr |-> <<>>, cache |-> LruTouch(c, entity_identifier)]
    ELSE LET r == fetch_body(ci, entity_identifier, b)
         IN  [out |-> r.out, calls |-> r.calls, stderr |-> <<>>,
              cache |-> IF r.out.kind = "return"
                        THEN LruStore(c, entity_identifier, r.out.value)
                        ELSE c]

---------------------------------------------------------------------------
(* Pagination, server.py:221-240.                                          *)

\* Python's list[start:stop]: a negative index counts from the end, and both
\* ends are clamped to the list.
PyIndex(i, n) == IF i < 0 THEN Max(i + n, 0) ELSE Min(i, n)
PySlice(s, start, stop) ==
    LET lo == PyIndex(start, Len(s))
        hi == PyIndex(stop, Len(s))
    IN  IF lo < hi THEN SubSeq(s, lo + 1, hi) ELSE <<>>

\* server.py:201, the defaults of page and page_size
DefaultPage == 1
DefaultPageSize == 100

\* start_idx taking pages as 0-based
start_idx_zero_based(page, page_size) == page * page_size

\* server.py:223
start_idx(page, page_size) == (page - 1) * page_size

\* end_idx that reaches one filing into the next page
end_idx_overlapping(start, page_size, total_filings) ==
    Min(start + page_size + 1, total_filings)

\* server.py:224
end_idx(start, page_size, total_filings) == Min(start + page_size, total_filings)

\* total_pages rounding down
total_pages_floor(total_filings, page_size) == total_filings \div page_size

\* server.py:236, for page_size > 0 (Python's // rounds down)
total_pages(total_filings, page_size) == (total_filings + page_size - 1) \div page_size

\* serializer.py:4-15, on the one non-JSON type of a filing record
Two(n) == IF n < 10 THEN "0" \o ToString(n) ELSE ToString(n)
filing_serializer(d) == ToString(d.year) \o "-" \o Two(d.month) \o "-" \o Two(d.day)

\* json.dumps(..., default=filing_serializer) on one filing record
JsonFiling(f) == [f EXCEPT !.filing_date = filing_serializer(@)]
JsonFilings(fs) == [i \in 1..Len(fs) |-> JsonFiling(fs[i])]

\* paginate that takes a page size of 0 to mean that there are no pages
paginate_zero_pages(f, page, page_size) ==
    IF f.out.kind = "raise" THEN f
    ELSE LET all_filings == f.out.value.list
             total_filings == Len(all_filings)
             start == start_idx(page, page_size)
             end == end_idx(start, page_size, total_filings)
             paginated_filings == PySlice(all_filings, start, end)
         IN  [f EXCEPT !.out = Return(JsonDumps(
                  [filings |-> JsonFilings(paginated_filings),
                   pagination |->
                      [page |-> page,
                       page_size |-> page_size,
                       total_items |-> total_filings,
                       total_pages |-> IF page_size = 0 THEN 0
                                       ELSE total_pages(total_filings, page_size)]]))]

\* server.py:221-240, the rest of the body once line 219 has run: f is what
\* _fetch_company_filings did, and an error it raised leaves the function.
paginate(f, page, page_size) ==
    IF f.out.kind = "raise" THEN f
    ELSE LET all_filings == f.out.value.list
             total_filings == Len(all_filings)
             start == start_idx(page, page_size)
             end == end_idx(start, page_size, total_filings)
             paginated_filings == PySlice(all_filings, start, end)
         IN  IF page_size = 0
                 THEN [f EXCEPT !.out = Raise(BuiltinError("ZeroDivisionError",
                                              "integer division or modulo by zero"))]
                 ELSE [f EXCEPT !.out = Return(JsonDumps(
                          [filings |-> JsonFilings(paginated_filings),
                           pagination |->
                              [page |-> page,
                               page_size |-> page_size,
                               total_items |-> total_filings,
                               total_pages |-> total_pages(total_filings, page_size)]]))]

\* server.py:200-240, the function body
get_company_filings(c, ci, entity_identifier, page, page_size, b) ==
    paginate(_fetch_company_filings(c, ci, entity_identifier, b), page, page_size)

---------------------------------------------------------------------------
(* How a function is reached.                                              *)

\* "module": through the name the module binds, as a caller that imports
\*           server does;
\* "mcp":    through the handler the MCP server holds for the tool or resource.
Vias == {"module", "mcp"}

\* server.py:61-63, 77-78, 94-95, 115-116, 136-137, 157-158, 198-199, 243-244.
\* Decorators apply bottom up: @mcp.tool() / @mcp.resource() is given the bare
\* function, registers it and hands it back; @process_error then wraps it and
\* the wrapper is what the module-level name is bound to.
Handler(via, func, r) == IF via = "mcp" THEN r ELSE process_error(func, r)

\* server.py:58, lifespan=app_lifespan: the MCP server enters app_lifespan
\* before it serves a request and does not start when app_lifespan raises, so
\* a registered handler runs only once client_instance is bound. A caller of
\* the module-level names is under no such order.
Served(via) == via = "mcp" => client_instance # None

Called(op, via, args, r) ==
    [op |-> op, via |-> via, args |-> args,
     out |-> r.out, calls |-> r.calls, stderr |-> r.stderr, evicted |-> {}]

\* The same for a call that looked the cache up: evicted holds the keys the
\* call removed from the cache, c being the cache before and r.cache after.
CalledLookup(op, via, args, r, c) ==
    [Called(op, via, args, r) EXCEPT !.evicted = CacheKeys(c) \ CacheKeys(r.cache)]

NoCall == Called("none", "none", NoArgs, Ran(Return(None), <<>>))

PEIdle == [pc |-> "idle"]
CLIIdle == [pc |-> "idle"]
WalkIdle ==
    [pc |-> "idle", id |-> "", page_size |-> 0, page |-> 0, total_pages |-> 0, slices |-> <<>>]

---------------------------------------------------------------------------
(* The server process.                                                     *)

Init ==
    /\ client_instance = None
    /\ cache = <<>>
    /\ inflight = <<>>
    /\ walk = WalkIdle
    /\ last = NoCall
    /\ pe = PEIdle
    /\ cli = CLIIdle

\* app_lifespan that clears client_instance before it constructs the client
app_lifespan_reset ==
    \E b \in BackingInit :
        LET r == EdgarClient_init(b)
            ok == r.kind = "return"
        IN  /\ client_instance' = IF ok THEN r.value ELSE None
            /\ last' = [Called("app_lifespan", "host", NoArgs,
                               Ran(IF ok THEN Return([client |-> r.value]) ELSE r,
                                   <<FacadeCall("__init__", [output_dir |-> "output"], b, r)>>))
                        EXCEPT !.stderr = IF ok
                                          THEN <<[print |-> "EDGAR client initialized successfully"]>>
                                          ELSE <<>>]
            /\ UNCHANGED <<cache, pe, cli, inflight, walk>>

\* server.py:34-54: the client is constructed and, when that succeeds, bound to
\* client_instance and yielded in the context; when it raises, the assignment
\* never happens and the error leaves app_lifespan.
app_lifespan ==
    \E b \in BackingInit :
        LET r == EdgarClient_init(b)
            ok == r.kind = "return"
        IN  /\ client_instance' = IF ok THEN r.value ELSE client_instance
            /\ last' = [Called("app_lifespan", "host", NoArgs,
                               Ran(IF ok THEN Return([client |-> r.value]) ELSE r,
                                   <<FacadeCall("__init__", [output_dir |-> "output"], b, r)>>))
                        EXCEPT !.stderr = IF ok
                                          THEN <<[print |-> "EDGAR client initialized successfully"]>>
                                          ELSE <<>>]
            /\ UNCHANGED <<cache, pe, cli, inflight, walk>>

\* Leaving app_lifespan with a teardown that drops the client and the cache
app_lifespan_exit_teardown ==
    /\ client_instance # None
    /\ client_instance' = None
    /\ cache' = <<>>
    /\ last' = Called("app_lifespan_exit", "host", NoArgs, Ran(Return(None), <<>>))
    /\ UNCHANGED <<pe, cli, inflight, walk>>

\* server.py:52-54: the server shuts down and leaves the context a startup
\* yielded; the finally block is `pass`. (When the construction raises the
\* same block runs within app_lifespan above.)
app_lifespan_exit ==
    /\ client_instance # None
    /\ last' = Called("app_lifespan_exit", "host", NoArgs, Ran(Return(None), <<>>))
    /\ UNCHANGED <<client_instance, cache, pe, cli, inflight, walk>>

Call_get_valid_cik_ticker ==
    \E via \in Vias, b \in Backing :
        /\ Served(via)
        /\ last' = Called("get_valid_cik_ticker", via, NoArgs,
                          Handler(via, "get_valid_cik_ticker",
                                  get_valid_cik_ticker(client_instance, b)))
        /\ UNCHANGED <<client_instance, cache, pe, cli, inflight, walk>>

Call_get_valid_forms ==
    \E via \in Vias, b \in Backing :
        /\ Served(via)
        /\ last' = Called("get_valid_forms", via, NoArgs,
                          Handler(via, "get_valid_forms",
                                  get_valid_forms(client_instance, b)))
        /\ UNCHANGED <<client_instance, cache, pe, cli, inflight, walk>>

Call_get_company_info ==
    \E via \in Vias, id \in Identifiers, b \in Backing :
        /\ Served(via)
        /\ last' = Called("get_company_info", via, [entity_identifier |-> id],
                          Handler(via, "get_company_info",
                                  get_company_info(client_instance, id, b)))
        /\ UNCHANGED <<client_instance, cache, pe, cli, inflight, walk>>

Call_get_company_name ==
    \E via \in Vias, id \in Identifiers, b \in Backing :
        /\ Served(via)
        /\ last' = Called("get_company_name", via, [entity_identifier |-> id],
                          Handler(via, "get_company_name",
                                  get_company_name(client_instance, id, b)))
        /\ UNCHANGED <<client_instance, cache, pe, cli, inflight, walk>>

Call_get_company_tickers ==
    \E via \in Vias, id \in Identifiers, b \in Backing :
        /\ Served(via)
        /\ last' = Called("get_company_tickers", via, [entity_identifier |-> id],
                          Handler(via, "get_company_tickers",
                                  get_company_tickers(client_instance, id, b)))
        /\ UNCHANGED <<client_instance, cache, pe, cli, inflight, walk>>

Call_get_company_sic_description ==
    \E via \in Vias, id \in Identifiers, b \in Backing :
        /\ Served(via)
        /\ last' = Called("get_company_sic_description", via, [entity_identifier |-> id],
                          Handler(via, "get_company_sic_description",
                                  get_company_sic_description(client_instance, id, b)))
        /\ UNCHANGED <<client_instance, cache, pe, cli, inflight, walk>>

Call_get_latest_financials ==
    \E via \in Vias, id \in Identifiers, t \in ProcTableTypes, annual \in BOOLEAN,
       b \in ProcBackingFinancials :
        /\ Served(via)
        /\ last' = Called("get_latest_financials", via,
                          [entity_identifier |-> id, table_type |-> t, annual |-> annual],
                          Handler(via, "get_latest_financials",
                                  get_latest_financials(client_instance, id, t, annual, b)))
        /\ UNCHANGED <<client_instance, cache, pe, cli, inflight, walk>>

\* _fetch_company_filings called by name (it is no tool: nothing registers it).
Call_fetch_company_filings ==
    \E id \in Identifiers, b \in BackingFilings(MaxProcFilings) :
        \E f \in {_fetch_company_filings(cache, client_instance, id, b)} :
            /\ last' = CalledLookup("_fetch_company_filings", "module",
                                    [entity_identifier |-> id], f, cache)
            /\ cache' = f.cache
            /\ UNCHANGED <<client_instance, pe, cli, inflight, walk>>

\* One call of get_company_filings: line 219, then the pagination.
Do_get_company_filings(via, id, page, page_size, b) ==
    \E f \in {_fetch_company_filings(cache, client_instance, id, b)} :
        \E r \in {paginate(f, page, page_size)} :
            /\ last' = CalledLookup("get_company_filings", via,
                                    [entity_identifier |-> id, page |-> page,
                                     page_size |-> page_size],
                                    Handler(via, "get_company_filings", r), cache)
            /\ cache' = r.cache
            /\ UNCHANGED <<client_instance, pe, cli, inflight>>

Call_get_company_filings ==
    \E via \in Vias, id \in Identifiers, b \in BackingFilings(MaxProcFilings) :
        /\ Served(via)
        /\ Do_get_company_filings(via, id, DefaultPage, DefaultPageSize, b)
        /\ UNCHANGED walk

\* The same call over the whole range of pages and page sizes.
Page_get_company_filings ==
    \E id \in PageIdentifiers, page \in Pages, page_size \in PageSizes,
       b \in BackingFilings(MaxFilings) :
        /\ Do_get_company_filings("module", id, page, page_size, b)
        /\ UNCHANGED walk

Next ==
    \/ app_lifespan
    \/ app_lifespan_exit
    \/ Call_get_valid_cik_ticker
    \/ Call_get_valid_forms
    \/ Call_get_company_info
    \/ Call_get_company_name
    \/ Call_get_company_tickers
    \/ Call_get_company_sic_description
    \/ Call_get_latest_financials
    \/ Call_fetch_company_filings
    \/ Call_get_company_filings

Spec == Init /\ [][Next]_vars

\* The server process with get_company_filings called over the whole range
\* of pages and page sizes.
NextPage ==
    \/ app_lifespan
    \/ Page_get_company_filings

SpecPage == Init /\ [][NextPage]_vars

---------------------------------------------------------------------------
(* A caller that reads all the filings of a company page by page, as       *)
(* tests/test_server.py:330-348 does for two pages: page 1 first, which    *)
(* tells it total_pages, then pages 2, 3, ... up to total_pages, each a    *)
(* call of get_company_filings by its module-level name with the same      *)
(* identifier and page size. walk.slices collects the 'filings' of pages   *)
(* 1..total_pages in the order they were read.                             *)

WalkPageSizes == 1..MaxPageSize

InitWalk ==
    /\ client_instance = TheClient
    /\ cache = <<>>
    /\ inflight = <<>>
    /\ walk = WalkIdle
    /\ last = NoCall
    /\ pe = PEIdle
    /\ cli = CLIIdle

\* The walk after the answer to page 1: given up when the answer is the
\* error envelope, over when there is at most one page.
WalkFirst(id, page_size, out) ==
    IF "error" \in DOMAIN out.value.json
    THEN [pc |-> "failed", id |-> id, page_size |-> page_size, page |-> 1,
          total_pages |-> 0, slices |-> <<>>]
    ELSE LET tp == out.value.json.pagination.total_pages
         IN  [pc |-> IF tp <= 1 THEN "done" ELSE "walking",
              id |-> id, page_size |-> page_size, page |-> 1, total_pages |-> tp,
              slices |-> IF tp = 0 THEN <<>> ELSE <<out.value.json.filings>>]

\* get_company_filings(ctx, id, page=1, page_size=P)
Walk_first ==
    /\ walk.pc # "walking"
    /\ \E id \in Identifiers, page_size \in WalkPageSizes,
          b \in BackingFilings(MaxFilings) :
          /\ Do_get_company_filings("module", id, 1, page_size, b)
          /\ walk' = WalkFirst(id, page_size, last'.out)

\* get_company_filings(ctx, id, page=K+1, page_size=P), K being the page read last
Walk_next ==
    /\ walk.pc = "walking"
    /\ walk.page < walk.total_pages
    /\ \E b \in BackingFilings(MaxFilings) :
          /\ Do_get_company_filings("module", walk.id, walk.page + 1, walk.page_size, b)
          /\ walk' = IF "error" \in DOMAIN last'.out.value.json
                     THEN [walk EXCEPT !.pc = "failed"]
                     ELSE [walk EXCEPT
                             !.pc = IF walk.page + 1 = walk.total_pages
                                    THEN "done" ELSE "walking",
                             !.page = walk.page + 1,
                             !.slices = Append(walk.slices, last'.out.value.json.filings)]

NextWalk ==
    \/ Walk_first
    \/ Walk_next

SpecWalk == InitWalk /\ [][NextWalk]_vars

---------------------------------------------------------------------------
(* One call of get_latest_financials on a constructed client, over all the *)
(* table kinds and all that the library may report.                        *)

InitFin ==
    /\ client_instance = TheClient
    /\ cache = <<>>
    /\ inflight = <<>>
    /\ walk = WalkIdle
    /\ last = NoCall
    /\ pe = PEIdle
    /\ cli = CLIIdle

Facade_get_latest_financials ==
    /\ last = NoCall
    /\ \E id \in Identifiers, t \in TableTypes, annual \in BOOLEAN,
          b \in BackingFinancials(MaxRows) :
          LET args == [entity_identifier |-> id, table_type |-> t, annual |-> annual]
              r == EdgarClient_get_latest_financials(id, t, annual, b)
          IN  last' = Called("EdgarClient.get_latest_financials", "facade", args,
                             Ran(r, <<FacadeCall("get_latest_financials", args, b, r)>>))
    /\ UNCHANGED <<client_instance, cache, pe, cli, inflight, walk>>

NextFin == Facade_get_latest_financials

SpecFin == InitFin /\ [][NextFin]_vars

---------------------------------------------------------------------------
(* The facade called again and again: the six operations of EdgarClient    *)
(* that take a company identifier, on a client that has been constructed.  *)

\* One call of a company-facing method of the facade. Company lists the
\* identifiers the method constructed edgar.Company from: each method has the
\* one statement `company = Company(entity_identifier)` at the head of its try
\* block (client.py:129, 147, 166, 185, 205, 246). after is the identifier of
\* the facade call made before this one.
FacadeCalled(method, args, b, r) ==
    [op |-> "EdgarClient." \o method, via |-> "facade", args |-> args,
     out |-> r, calls |-> <<FacadeCall(method, args, b, r)>>,
     stderr |-> <<>>, evicted |-> {},
     Company |-> <<args.entity_identifier>>,
     after |-> IF last.via = "facade" THEN last.args.entity_identifier ELSE NoArg]

InitFacade ==
    /\ client_instance = TheClient
    /\ cache = <<>>
    /\ inflight = <<>>
    /\ walk = WalkIdle
    /\ last = NoCall
    /\ pe = PEIdle
    /\ cli = CLIIdle

\* client.py:113-131
Client_get_company_info ==
    /\ \E id \in Identifiers, b \in Backing :
          last' = FacadeCalled("get_company_info", [entity_identifier |-> id], b,
                               EdgarClient_get_company_info(id, b))
    /\ UNCHANGED <<client_instance, cache, pe, cli, inflight, walk>>

\* client.py:133-150
Client_get_company_name ==
    /\ \E id \in Identifiers, b \in Backing :
          last' = FacadeCalled("get_company_name", [entity_identifier |-> id], b,
                               EdgarClient_get_company_name(id, b))
    /\ UNCHANGED <<client_instance, cache, pe, cli, inflight, walk>>

\* client.py:152-169
Client_get_company_tickers ==
    /\ \E id \in Identifiers, b \in Backing :
          last' = FacadeCalled("get_company_tickers", [entity_identifier |-> id], b,
                               EdgarClient_get_company_tickers(id, b))
    /\ UNCHANGED <<client_instance, cache, pe, cli, inflight, walk>>

\* client.py:171-188
Client_get_company_sic_description ==
    /\ \E id \in Identifiers, b \in Backing :
          last' = FacadeCalled("get_company_sic_description", [entity_identifier |-> id], b,
                               EdgarClient_get_company_sic_description(id, b))
    /\ UNCHANGED <<client_instance, cache, pe, cli, inflight, walk>>

\* client.py:190-217
Client_get_company_filings ==
    /\ \E id \in Identifiers, b \in BackingFilings(MaxProcFilings) :
          last' = FacadeCalled("get_company_filings", [entity_identifier |-> id], b,
                               EdgarClient_get_company_filings(id, b))
    /\ UNCHANGED <<client_instance, cache, pe, cli, inflight, walk>>

\* client.py:219-271
Client_get_latest_financials ==
    /\ \E id \in Identifiers, t \in ProcTableTypes, annual \in BOOLEAN,
          b \in ProcBackingFinancials :
          last' = FacadeCalled("get_latest_financials",
                               [entity_identifier |-> id, table_type |-> t, annual |-> annual],
                               b, EdgarClient_get_latest_financials(id, t, annual, b))
    /\ UNCHANGED <<client_instance, cache, pe, cli, inflight, walk>>

NextFacade ==
    \/ Client_get_company_info
    \/ Client_get_company_name
    \/ Client_get_company_tickers
    \/ Client_get_company_sic_description
    \/ Client_get_company_filings
    \/ Client_get_latest_financials

SpecFacade == InitFacade /\ [][NextFacade]_vars

---------------------------------------------------------------------------
(* Concurrent get_company_filings requests in a server that has started.   *)
(* A request is the registered handler running line 219 and then the       *)
(* pagination; the memoised lookup is what functools documents of          *)
(* lru_cache under concurrent calls: the cache stays coherent, and the     *)
(* wrapped function may run more than once for a key when a second call    *)
(* arrives before the first has been stored. The steps of different        *)
(* requests interleave freely.                                             *)

Requests == 1..NumRequests

Pending == [kind |-> "pending"]

NewRequest ==
    [pc |-> "new", id |-> "", f |-> Ran(Pending, <<>>), out |-> Pending]

\* The store that ends a miss without looking whether the cache is full or
\* the key has been stored meanwhile
ConcStore_unchecked(c, key, value) == Append(c, [key |-> key, value |-> value])

\* The store that ends a miss: a key that another call stored while the
\* body ran is left as it is, and otherwise the result is stored, evicting
\* the least recently used entry of a full cache.
ConcStore(c, key, value) ==
    IF key \in CacheKeys(c) THEN c ELSE LruStore(c, key, value)

InitConc ==
    /\ client_instance = TheClient
    /\ cache = <<>>
    /\ last = NoCall
    /\ pe = PEIdle
    /\ cli = CLIIdle
    /\ inflight = [r \in Requests |-> NewRequest]
    /\ walk = WalkIdle

\* server.py:219, the call of the memoised function: a hit returns the
\* stored list, a miss goes on to run the body.
Conc_lookup(r) ==
    /\ inflight[r].pc = "new"
    /\ \E id \in PageIdentifiers :
          IF id \in CacheKeys(cache)
          THEN /\ inflight' = [inflight EXCEPT ![r] =
                                  [@ EXCEPT !.pc = "paginate", !.id = id,
                                            !.f = Ran(Return(CacheValue(cache, id)), <<>>)]]
               /\ cache' = LruTouch(cache, id)
          ELSE /\ inflight' = [inflight EXCEPT ![r] = [@ EXCEPT !.pc = "body", !.id = id]]
               /\ cache' = cache
    /\ UNCHANGED <<client_instance, last, pe, cli, walk>>

\* server.py:193-195, the body of _fetch_company_filings, outside any lock.
Conc_body(r) ==
    /\ inflight[r].pc = "body"
    /\ \E b \in BackingFilings(MaxProcFilings) :
          \E f \in {fetch_body(client_instance, inflight[r].id, b)} :
              inflight' = [inflight EXCEPT ![r] =
                              [@ EXCEPT !.pc = IF f.out.kind = "return" THEN "store"
                                               ELSE "paginate",
                                        !.f = f]]
    /\ UNCHANGED <<client_instance, cache, last, pe, cli, walk>>

\* The result of the body is stored and returned to line 219.
Conc_store(r) ==
    /\ inflight[r].pc = "store"
    /\ cache' = ConcStore(cache, inflight[r].id, inflight[r].f.out.value)
    /\ inflight' = [inflight EXCEPT ![r] = [@ EXCEPT !.pc = "paginate"]]
    /\ UNCHANGED <<client_instance, last, pe, cli, walk>>

\* server.py:221-240 with the default page and page size, and the return.
Conc_return(r) ==
    /\ inflight[r].pc = "paginate"
    /\ inflight' = [inflight EXCEPT ![r] =
                       [@ EXCEPT !.pc = "done",
                                 !.out = Handler("mcp", "get_company_filings",
                                                 paginate(inflight[r].f, DefaultPage,
                                                          DefaultPageSize)).out]]
    /\ UNCHANGED <<client_instance, cache, last, pe, cli, walk>>

NextConc ==
    \E r \in Requests :
        \/ Conc_lookup(r)
        \/ Conc_body(r)
        \/ Conc_store(r)
        \/ Conc_return(r)

SpecConc == InitConc /\ [][NextConc]_vars

---------------------------------------------------------------------------
(* process_error on its own: any wrapped function, any outcome of it.      *)

WrappedFunctions ==
    {"get_valid_cik_ticker", "get_valid_forms", "get_company_info", "get_company_name",
     "get_company_tickers", "get_company_sic_description", "get_company_filings",
     "get_latest_financials"}

PEMessages == {"EDGAR client not initialized", "boom"}
PETracebacks == {"", "Traceback (most recent call last): ..."}

\* Exceptions a wrapped function may raise: EdgarError with any code and
\* traceback, built-in errors that carry neither attribute, and exceptions of
\* other libraries that carry one of the two.
PEExceptions ==
    {EdgarError(m, c, t) : m \in PEMessages, c \in {500, 503, 404}, t \in PETracebacks}
    \cup {BuiltinError(ty, m) : ty \in {"ZeroDivisionError", "KeyError"}, m \in PEMessages}
    \cup {[type |-> "HTTPError", message |-> m, error_code |-> 429] : m \in PEMessages}
    \cup {[type |-> "RemoteError", message |-> m, error_traceback |-> t] :
            m \in PEMessages, t \in PETracebacks}

PEOutcomes ==
    {Return(JsonDumps([ok |-> TRUE]))} \cup {Raise(e) : e \in PEExceptions}

InitPE ==
    /\ client_instance = None
    /\ cache = <<>>
    /\ inflight = <<>>
    /\ walk = WalkIdle
    /\ last = NoCall
    /\ cli = CLIIdle
    /\ pe \in [pc : {"ready"}, func : WrappedFunctions, body : PEOutcomes]

\* One call of the wrapper around a function whose body ends as pe.body says.
PE_call ==
    /\ pe.pc = "ready"
    /\ pe' = [pc |-> "called", func |-> pe.func, body |-> pe.body,
              result |-> process_error(pe.func, Ran(pe.body, <<>>))]
    /\ UNCHANGED <<client_instance, cache, last, cli, inflight, walk>>

NextPE == PE_call

SpecPE == InitPE /\ [][NextPE]_vars

---------------------------------------------------------------------------
(* The command line, run.py.                                               *)

\* run.py:53-107, what parse_args accepts
CLIGlobals ==
    [verbose : BOOLEAN, log_file : {NoArg, "edgar.log"}, output_dir : {"output", "data"}]

CLIArgs ==
    {[command |-> "info", entity_identifier |-> id, field |-> f, globals |-> g] :
        id \in Identifiers, f \in {NoArg, "name", "tickers", "sic", "filings"},
        g \in CLIGlobals}
    \cup
    {[command |-> "financials", entity_identifier |-> id, table_type |-> t,
      quarterly |-> q, globals |-> g] :
        id \in Identifiers, t \in {NoArg} \cup ProcTableTypes, q \in BOOLEAN,
        g \in CLIGlobals}
    \cup
    {[command |-> NoArg, globals |-> g] : g \in CLIGlobals}

\* One run of a handler: how it ended, the facade calls it made and the
\* records it logged.
Handled(out, calls, log) == [out |-> out, calls |-> calls, log |-> log]

LogRecord(level, msg) == [level |-> level, msg |-> msg]

\* The facade call a handler makes; an error it raises leaves the handler,
\* which catches nothing, and otherwise the handler logs one record.
HandlerCall(method, fargs, b, r, level, msg) ==
    Handled(IF r.kind = "return" THEN Return(None) ELSE r,
            <<FacadeCall(method, fargs, b, r)>>,
            IF r.kind = "return" THEN <<LogRecord(level, msg)>> ELSE <<>>)

\* handle_info whose "sic" entry asks for the company's name
handle_info_sic_as_name(args, b) ==
    LET id == args.entity_identifier
    IN  CASE args.field \in {"name", "sic"} ->
                LET r == EdgarClient_get_company_name(id, b)
                IN  HandlerCall("get_company_name", [entity_identifier |-> id], b, r, "INFO",
                                r.value)
          [] args.field = "tickers" ->
                LET r == EdgarClient_get_company_tickers(id, b)
                IN  HandlerCall("get_company_tickers", [entity_identifier |-> id], b, r, "INFO",
                                [joined |-> r.value])
          [] args.field = "filings" ->
                LET r == EdgarClient_get_company_filings(id, b)
                IN  HandlerCall("get_company_filings", [entity_identifier |-> id], b, r, "INFO",
                                JsonDumps(List(JsonFilings(r.value.list))))
          [] OTHER ->
                LET r == EdgarClient_get_company_info(id, b)
                IN  HandlerCall("get_company_info", [entity_identifier |-> id], b, r, "INFO",
                                JsonDumps(r.value))

\* run.py:16-37
handle_info(args, b) ==
    LET id == args.entity_identifier
    IN  CASE args.field = "name" ->
                LET r == EdgarClient_get_company_name(id, b)
                IN  HandlerCall("get_company_name", [entity_identifier |-> id], b, r, "INFO",
                                r.value)
          [] args.field = "tickers" ->
                LET r == EdgarClient_get_company_tickers(id, b)
                IN  HandlerCall("get_company_tickers", [entity_identifier |-> id], b, r, "INFO",
                                [joined |-> r.value])
          [] args.field = "sic" ->
                LET r == EdgarClient_get_company_sic_description(id, b)
                IN  HandlerCall("get_company_sic_description", [entity_identifier |-> id], b, r,
                                "INFO", r.value)
          [] args.field = "filings" ->
                LET r == EdgarClient_get_company_filings(id, b)
                IN  HandlerCall("get_company_filings", [entity_identifier |-> id], b, r, "INFO",
                                JsonDumps(List(JsonFilings(r.value.list))))
          [] OTHER ->
                LET r == EdgarClient_get_company_info(id, b)
                IN  HandlerCall("get_company_info", [entity_identifier |-> id], b, r, "INFO",
                                JsonDumps(r.value))

\* handle_financials that passes args.quarterly on as annual
handle_financials_quarterly_as_annual(args, b) ==
    LET id == args.entity_identifier
        annual == args.quarterly
        r == EdgarClient_get_latest_financials(id, args.table_type, annual, b)
        fargs == [entity_identifier |-> id, table_type |-> args.table_type, annual |-> annual]
    IN  IF r.kind = "return" /\ r.value.list = <<>>
        THEN HandlerCall("get_latest_financials", fargs, b, r, "WARNING",
                         [format |-> "No financials found for %s", arg |-> id])
        ELSE HandlerCall("get_latest_financials", fargs, b, r, "INFO", JsonDumps(r.value))

\* run.py:40-48: annual is `not args.quarterly`; a result that is not empty is
\* logged as JSON at INFO, an empty one gives the notice at WARNING.
handle_financials(args, b) ==
    LET id == args.entity_identifier
        annual == ~args.quarterly
        r == EdgarClient_get_latest_financials(id, args.table_type, annual, b)
        fargs == [entity_identifier |-> id, table_type |-> args.table_type, annual |-> annual]
    IN  IF r.kind = "return" /\ r.value.list = <<>>
        THEN HandlerCall("get_latest_financials", fargs, b, r, "WARNING",
                         [format |-> "No financials found for %s", arg |-> id])
        ELSE HandlerCall("get_latest_financials", fargs, b, r, "INFO", JsonDumps(r.value))

\* What the backing source may do for the facade call of a command.
CLIBacking(args) ==
    IF args.command = "info" /\ args.field = "filings"
    THEN BackingFilings(MaxProcFilings)
    ELSE IF args.command = "financials"
    THEN ProcBackingFinancials
    ELSE Backing

\* logging.py:8-24: with a log file its directory and the file are opened,
\* which the file system may refuse.
LoggingOutcomes(args) ==
    IF args.globals.log_file = NoArg THEN {"ok"} ELSE {"ok", "OSError"}

\* main that prints the help of a run without a command before it would
\* construct the client
main_help_without_client(args, lg, bi, b) ==
    LET level == IF args.globals.verbose THEN "DEBUG" ELSE "INFO"
        setup == [log_file |-> args.globals.log_file, level |-> level]
        made == EdgarClient_init(bi)
        init_call == FacadeCall("__init__", [output_dir |-> args.globals.output_dir], bi, made)
        h == IF args.command = "info" THEN handle_info(args, b)
             ELSE handle_financials(args, b)
    IN  IF lg # "ok"
        THEN [pc |-> "exited", args |-> args, setup_logging |-> <<setup>>,
              handler |-> <<>>, calls |-> <<>>, log |-> <<>>, help |-> FALSE,
              trace |-> <<"setup_logging">>,
              out |-> Raise(BuiltinError("OSError", "cannot open log file"))]
        ELSE IF args.command \notin {"info", "financials"}
        THEN [pc |-> "exited", args |-> args, setup_logging |-> <<setup>>,
              handler |-> <<>>, calls |-> <<>>, log |-> <<>>, help |-> TRUE,
              trace |-> <<"setup_logging", "print_help">>,
              out |-> Return(None)]
        ELSE IF made.kind = "raise"
        THEN [pc |-> "exited", args |-> args, setup_logging |-> <<setup>>,
              handler |-> <<>>, calls |-> <<init_call>>, log |-> <<>>, help |-> FALSE,
              trace |-> <<"setup_logging", "EdgarClient">>,
              out |-> made]
        ELSE [pc |-> "exited", args |-> args, setup_logging |-> <<setup>>,
              handler |-> <<"handle_" \o args.command>>,
              calls |-> <<init_call>> \o h.calls, log |-> h.log, help |-> FALSE,
              trace |-> <<"setup_logging", "EdgarClient", "handle_" \o args.command>>,
              out |-> h.out]

\* run.py:107-125: logging is configured, the client constructed and the
\* command's handler called; nothing in main catches an error.  trace lists
\* the steps in the order main took them.
main(args, lg, bi, b) ==
    LET level == IF args.globals.verbose THEN "DEBUG" ELSE "INFO"
        setup == [log_file |-> args.globals.log_file, level |-> level]
        made == EdgarClient_init(bi)
        init_call == FacadeCall("__init__", [output_dir |-> args.globals.output_dir], bi, made)
        h == IF args.command = "info" THEN handle_info(args, b)
             ELSE handle_financials(args, b)
    IN  IF lg # "ok"
        THEN [pc |-> "exited", args |-> args, setup_logging |-> <<setup>>,
              handler |-> <<>>, calls |-> <<>>, log |-> <<>>, help |-> FALSE,
              trace |-> <<"setup_logging">>,
              out |-> Raise(BuiltinError("OSError", "cannot open log file"))]
        ELSE IF made.kind = "raise"
        THEN [pc |-> "exited", args |-> args, setup_logging |-> <<setup>>,
              handler |-> <<>>, calls |-> <<init_call>>, log |-> <<>>, help |-> FALSE,
              trace |-> <<"setup_logging", "EdgarClient">>,
              out |-> made]
        ELSE IF args.command \in {"info", "financials"}
        THEN [pc |-> "exited", args |-> args, setup_logging |-> <<setup>>,
              handler |-> <<"handle_" \o args.command>>,
              calls |-> <<init_call>> \o h.calls, log |-> h.log, help |-> FALSE,
              trace |-> <<"setup_logging", "EdgarClient", "handle_" \o args.command>>,
              out |-> h.out]
        ELSE [pc |-> "exited", args |-> args, setup_logging |-> <<setup>>,
              handler |-> <<>>, calls |-> <<init_call>>, log |-> <<>>, help |-> TRUE,
              trace |-> <<"setup_logging", "EdgarClient", "print_help">>,
              out |-> Return(None)]

InitCLI ==
    /\ client_instance = None
    /\ cache = <<>>
    /\ inflight = <<>>
    /\ walk = WalkIdle
    /\ last = NoCall
    /\ pe = PEIdle
    /\ cli \in [pc : {"start"}, args : CLIArgs]

CLI_main ==
    /\ cli.pc = "start"
    /\ \E lg \in LoggingOutcomes(cli.args), bi \in BackingInit, b \in CLIBacking(cli.args) :
          cli' = main(cli.args, lg, bi, b)
    /\ UNCHANGED <<client_instance, cache, last, pe, inflight, walk>>

NextCLI == CLI_main

SpecCLI == InitCLI /\ [][NextCLI]_vars

---------------------------------------------------------------------------
(* Properties.                                                             *)

\* The envelope of an uninitialised client.
NotInitializedEnvelope ==
    Return(JsonDumps([error |-> TRUE, message |-> "EDGAR client not initialized",
                      code |-> 503, traceback |-> ""]))

IsEnvelope(out) ==
    /\ out.kind = "return"
    /\ "json" \in DOMAIN out.value
    /\ "error" \in DOMAIN out.value.json

\* The last call was get_company_filings by its module-level name and its
\* lookup returned a list, which the cache now holds under the identifier.
PagedCall ==
    /\ last.op = "get_company_filings"
    /\ last.via = "module"
    /\ last.args.entity_identifier \in CacheKeys(cache)

PagedList == CacheValue(cache, last.args.entity_identifier).list

\* Elements [(K-1)P, min(KP, N)) of full, in their order.
ExpectedSlice(full, K, P) ==
    LET lo == (K - 1) * P
        hi == Min(K * P, Len(full))
    IN  [j \in 1..Max(hi - lo, 0) |-> full[lo + j]]

\* The least q with q * P >= N.
CeilDiv(N, P) == CHOOSE q \in 0..N : q * P >= N /\ \A q2 \in 0..N : q2 * P >= N => q <= q2

\* C1: for a cached filing list of length N, a page size P >= 1 and a page
\* K >= 1, get_company_filings returns as 'filings' exactly the elements at
\* indices [(K-1)P, min(KP, N)) of the list, in order, and the empty slice,
\* not an error, when (K-1)P >= N.
C1_PageSlice ==
    (PagedCall /\ last.args.page >= 1 /\ last.args.page_size >= 1)
    => /\ last.out.kind = "return"
       /\ ~IsEnvelope(last.out)
       /\ last.out.value.json.filings
             = JsonFilings(ExpectedSlice(PagedList, last.args.page, last.args.page_size))
       /\ ((last.args.page - 1) * last.args.page_size >= Len(PagedList)
             => last.out.value.json.filings = <<>>)

\* The second page of two of a list of three: a last page that is not full.
C1_Witness ==
    /\ PagedCall
    /\ last.args.page = 2
    /\ last.args.page_size = 2
    /\ Len(PagedList) = 3
    /\ last.out.kind = "return"
    /\ Len(last.out.value.json.filings) = 1

\* C2: for a list of length N >= 0, a page size P >= 1 and a page K >= 1 the
\* pagination metadata is page = K, page_size = P, total_items = N and
\* total_pages = ceil(N / P), which is 0 when N = 0; the two totals are the
\* same whatever K is.
C2_PaginationMetadata ==
    (PagedCall /\ last.args.page >= 1 /\ last.args.page_size >= 1)
    => /\ last.out.kind = "return"
       /\ ~IsEnvelope(last.out)
       /\ last.out.value.json.pagination
             = [page |-> last.args.page,
                page_size |-> last.args.page_size,
                total_items |-> Len(PagedList),
                total_pages |-> CeilDiv(Len(PagedList), last.args.page_size)]
       /\ (Len(PagedList) = 0 => last.out.value.json.pagination.total_pages = 0)

\* Three filings in pages of two, asked for a page past the end: two pages.
C2_Witness ==
    /\ PagedCall
    /\ last.args.page = 3
    /\ last.args.page_size = 2
    /\ Len(PagedList) = 3
    /\ last.out.kind = "return"
    /\ last.out.value.json.pagination.total_pages = 2

---------------------------------------------------------------------------
(* The filings cache.                                                      *)

Lookups == {"_fetch_company_filings", "get_company_filings"}

\* This step is a call of _fetch_company_filings right after another one
\* that returned.
FetchAfterFetch ==
    /\ last.op = "_fetch_company_filings"
    /\ last.out.kind = "return"
    /\ last'.op = "_fetch_company_filings"

\* The filings of a list are those of the company the identifier names.
OwnList(value, id) ==
    \A i \in 1..Len(value.list) : value.list[i].accession_number[1] = CompanyOf(id)

\* C3: two calls of _fetch_company_filings with the same identifier string
\* invoke the facade's get_company_filings once (the first call, when it
\* found no entry) and return equal results; two calls with different
\* strings invoke it once per identifier, each returning the list of its own
\* identifier.
C3_CacheLookup ==
    [][FetchAfterFetch =>
          IF last'.args = last.args
          THEN /\ last'.calls = <<>>
               /\ last'.out = last.out
               /\ Len(last.calls) <= 1
               /\ OwnList(last.out.value, last.args.entity_identifier)
          ELSE /\ Len(last'.calls) = 1
               /\ last'.calls[1].method = "get_company_filings"
               /\ last'.calls[1].args = last'.args
               /\ \A i \in 1..Len(last.calls) :
                     /\ last.calls[i].method = "get_company_filings"
                     /\ last.calls[i].args = last.args
               /\ Len(last.calls) <= 1
               /\ OwnList(last.out.value, last.args.entity_identifier)
               /\ (last'.out.kind = "return"
                     => /\ last'.out = last'.calls[1].out
                        /\ OwnList(last'.out.value, last'.args.entity_identifier))]_vars

\* A call of _fetch_company_filings that was answered from the cache: the
\* second of two calls with the same identifier.
C3_Witness ==
    /\ last.op = "_fetch_company_filings"
    /\ last.out.kind = "return"
    /\ last.calls = <<>>
    /\ Len(last.out.value.list) > 0

\* This step is a lookup of the filings of id.
LookupStep(id) ==
    /\ last'.op \in Lookups
    /\ last'.args.entity_identifier = id

\* The lookup of this step went to the facade and the facade returned.
FetchedStep ==
    /\ Len(last'.calls) = 1
    /\ last'.calls[1].out.kind = "return"

\* C4, as claimed: the cache never evicts and never expires: no call removes
\* an entry, and a request for an identifier that has an entry invokes no
\* facade method, so that an identifier looked up once is served from the
\* cache ever after.
C4_NeverEvicts ==
    [][\A X \in CacheKeys(cache) :
          /\ X \in CacheKeys(cache')
          /\ LookupStep(X) => last'.calls = <<>>]_vars

\* C4, amended: the cache never expires but holds one entry. Once a lookup
\* for X has succeeded, a later request for X invokes no facade method and
\* leaves the cache as it is, for as long as no lookup for another identifier
\* has succeeded in between: only such a lookup removes X's entry, and it
\* always does.
C4_HeldUntilReplaced ==
    [][\A X \in CacheKeys(cache) :
          /\ LookupStep(X) => (last'.calls = <<>> /\ cache' = cache)
          /\ X \notin CacheKeys(cache')
                => \E Y \in Identifiers \ {X} : LookupStep(Y) /\ FetchedStep
          /\ \A Y \in Identifiers \ {X} :
                (LookupStep(Y) /\ FetchedStep) => CacheKeys(cache') = {Y}]_vars

\* get_company_filings answered from the cache, with no facade call.
C4_Witness ==
    /\ last.op = "get_company_filings"
    /\ last.via = "module"
    /\ last.calls = <<>>
    /\ last.out.kind = "return"
    /\ ~IsEnvelope(last.out)
    /\ last.args.entity_identifier = "MSFT"

SameCompany(a, b) == a # b /\ CompanyOf(a) = CompanyOf(b)

\* C5, as claimed: the cache is keyed by the identifier string as given:
\* after successful lookups with two strings naming one company both entries
\* are held, and neither lookup is served from the entry of the other.
C5_TwoEntriesHeld ==
    [][\A a \in CacheKeys(cache), b \in Identifiers :
          (SameCompany(a, b) /\ LookupStep(b))
          => /\ Len(last'.calls) = 1
             /\ last'.calls[1].args = [entity_identifier |-> b]
             /\ (FetchedStep => {a, b} \subseteq CacheKeys(cache'))]_vars

\* C5, amended: the cache is keyed by the identifier string as given, with no
\* normalisation: a lookup with one string is never served from the entry of
\* another string naming the same company, it invokes the facade with its own
\* string; when it succeeds its entry replaces the other one, so the entries
\* of two strings are never held together.
C5_KeyedByString ==
    [][\A a \in CacheKeys(cache), b \in Identifiers :
          (SameCompany(a, b) /\ LookupStep(b))
          => /\ Len(last'.calls) = 1
             /\ last'.calls[1].method = "get_company_filings"
             /\ last'.calls[1].args = [entity_identifier |-> b]
             /\ (FetchedStep => CacheKeys(cache') = {b})
             /\ (~FetchedStep => cache' = cache)]_vars

\* A lookup by CIK that went to the facade and replaced the ticker's entry.
C5_Witness ==
    /\ last.op \in Lookups
    /\ last.args.entity_identifier = "0000320193"
    /\ Len(last.calls) = 1
    /\ last.evicted = {"AAPL"}
    /\ CacheKeys(cache) = {"0000320193"}

---------------------------------------------------------------------------
(* The error envelope.                                                     *)

\* C6: while client_instance is None, every call of a tool or resource, with
\* any argument, returns exactly the envelope {"error": true, "message":
\* "EDGAR client not initialized", "code": 503, "traceback": ""} and invokes
\* no facade method.
C6_NotInitialized ==
    (client_instance = None /\ last.op \in WrappedFunctions)
    => /\ last.out = NotInitializedEnvelope
       /\ last.calls = <<>>

\* get_company_filings called with no client: the envelope, no facade call.
C6_Witness ==
    /\ client_instance = None
    /\ last.op = "get_company_filings"
    /\ last.via = "module"
    /\ last.out = NotInitializedEnvelope
    /\ last.calls = <<>>

\* C7: the handler the MCP server registered for a tool or resource never
\* raises: when the body raises it returns the JSON error envelope.
C7_OuterBoundary ==
    (last.op \in WrappedFunctions /\ last.via = "mcp")
    => /\ last.out.kind = "return"
       /\ (\E i \in 1..Len(last.calls) : last.calls[i].out.kind = "raise")
             => IsEnvelope(last.out)

\* C8: no run of the command line ends with an error propagated out of
\* main: an error raised by the client's construction or by a command is
\* caught and logged as a JSON envelope with error true.
C8_CLIBoundary ==
    (cli.pc = "exited" /\ cli.calls # <<>>)
    => /\ cli.out.kind = "return"
       /\ (\E i \in 1..Len(cli.calls) : cli.calls[i].out.kind = "raise")
             => \E j \in 1..Len(cli.log) :
                   /\ "json" \in DOMAIN cli.log[j].msg
                   /\ "error" \in DOMAIN cli.log[j].msg.json

\* C9: when the wrapped function raises e, the wrapper does not propagate e:
\* it returns a JSON object with exactly the fields error = true, message =
\* str(e), code = e.error_code when e carries one and 500 otherwise, and
\* traceback = e.error_traceback when e carries one and "" otherwise.
C9_Envelope ==
    (pe.pc = "called" /\ pe.body.kind = "raise")
    => LET e == pe.body.exc
           out == pe.result.out
       IN  /\ out.kind = "return"
           /\ DOMAIN out.value = {"json"}
           /\ DOMAIN out.value.json = {"error", "message", "code", "traceback"}
           /\ out.value.json.error = TRUE
           /\ out.value.json.message = e.message
           /\ out.value.json.code
                 = (IF "error_code" \in DOMAIN e THEN e.error_code ELSE 500)
           /\ out.value.json.traceback
                 = (IF "error_traceback" \in DOMAIN e THEN e.error_traceback ELSE "")

\* An exception that carries a traceback and no code: 500 and its traceback.
C9_Witness ==
    /\ pe.pc = "called"
    /\ pe.body.kind = "raise"
    /\ pe.body.exc.type = "RemoteError"
    /\ pe.body.exc.error_traceback # ""
    /\ pe.result.out.kind = "return"
    /\ pe.result.out.value.json.code = 500
    /\ pe.result.out.value.json.traceback = pe.body.exc.error_traceback

\* The fixed prefix of each facade operation, as the source spells it.
C10_Prefix ==
    [get_valid_cik_ticker_data |-> "Failed to get valid CIK and ticker data: ",
     get_valid_forms_data |-> "Failed to get valid forms data: ",
     get_company_info |-> "Failed to get company info: ",
     get_company_name |-> "Failed to get company name: ",
     get_company_tickers |-> "Failed to get company tickers: ",
     get_company_sic_description |-> "Failed to get company SIC description: ",
     get_company_filings |-> "Failed to get company filings: ",
     get_latest_financials |-> "Failed to get company financials: "]

\* C10: every facade operation of an initialised client returns its result
\* or raises EdgarError with error_code 500 and the operation's prefix
\* followed by the text of the original failure; nothing else escapes.
C10_FacadeErrors ==
    \A i \in 1..Len(last.calls) :
        LET c == last.calls[i]
        IN  c.method \in DOMAIN C10_Prefix
            => \/ c.out.kind = "return" /\ c.backing.kind = "ok"
               \/ /\ c.out.kind = "raise"
                  /\ c.backing.kind = "fail"
                  /\ c.out.exc.type = "EdgarError"
                  /\ c.out.exc.error_code = 500
                  /\ c.out.exc.message = C10_Prefix[c.method] \o c.backing.text

\* get_latest_financials failed in the library: EdgarError 500, prefixed.
C10_Witness ==
    /\ last.op = "get_latest_financials"
    /\ Len(last.calls) = 1
    /\ last.calls[1].out.kind = "raise"
    /\ last.calls[1].out.exc.message = "Failed to get company financials: no such company"

---------------------------------------------------------------------------
(* Construction of the client.                                             *)

\* The last step was a startup and this is what the constructor did in it.
Constructed == last.op = "app_lifespan"
Construction == last.calls[1]

\* C11: when the request for the ticker table fails with a network error,
\* EdgarClient() raises EdgarError with error_code 503 and a message that
\* starts with 'Failed to initialize EDGAR client', and produces no client.
C11_NetworkFailure ==
    (Constructed /\ Construction.backing.kind = "request")
    => /\ Construction.out.kind = "raise"
       /\ "value" \notin DOMAIN Construction.out
       /\ Construction.out.exc.type = "EdgarError"
       /\ Construction.out.exc.error_code = 503
       /\ Construction.out.exc.message
             = "Failed to initialize EDGAR client: " \o Construction.backing.text

\* A startup whose request failed: EdgarError 503 and still no client.
C11_Witness ==
    /\ Constructed
    /\ Construction.backing = [kind |-> "request", text |-> "connection reset"]
    /\ Construction.out.kind = "raise"
    /\ Construction.out.exc.error_code = 503
    /\ client_instance = None

\* C12: every failure of the load of the ticker table during construction,
\* a network error or a response of an unexpected shape, raises EdgarError
\* with error_code 503.
C12_LoadFailureIs503 ==
    (Constructed /\ Construction.backing.kind \in {"request", "other"})
    => /\ Construction.out.kind = "raise"
       /\ Construction.out.exc.type = "EdgarError"
       /\ Construction.out.exc.error_code = 503

---------------------------------------------------------------------------
(* The facade's results.                                                   *)

FilingFields == {"form", "filing_date", "accession_number", "isXBRL"}

\* The facade calls of the last step that asked for a filing list and in
\* which the library did not fail.
FilingCalls ==
    {i \in 1..Len(last.calls) :
        /\ last.calls[i].method = "get_company_filings"
        /\ last.calls[i].backing.kind = "ok"}

\* C13: for every identifier the facade's get_company_filings returns the
\* empty list, raising nothing, when the backing source reports no filings,
\* and otherwise one record per filing, in the order reported, holding the
\* four fields form, filing_date, accession_number and isXBRL and no other,
\* with isXBRL a boolean.
C13_FilingRecords ==
    \A i \in FilingCalls :
        LET c == last.calls[i]
            frame == FilingsFrame(CompanyOf(c.args.entity_identifier), c.backing.n)
        IN  /\ c.out.kind = "return"
            /\ c.backing.n = 0 => c.out.value = List(<<>>)
            /\ Len(c.out.value.list) = c.backing.n
            /\ \A j \in 1..c.backing.n :
                  LET rec == c.out.value.list[j]
                  IN  /\ DOMAIN rec = FilingFields
                      /\ rec.isXBRL \in BOOLEAN
                      /\ rec.isXBRL = (frame[j].isXBRL = 1)
                      /\ rec.form = frame[j].form
                      /\ rec.filing_date = frame[j].filing_date
                      /\ rec.accession_number = frame[j].accession_number

\* Two filings reported, one with XBRL and one without: two records.
C13_Witness ==
    /\ FilingCalls # {}
    /\ \E i \in FilingCalls :
          /\ last.calls[i].backing.n = 2
          /\ last.calls[i].out.value.list[1].isXBRL = TRUE
          /\ last.calls[i].out.value.list[2].isXBRL = FALSE

\* No filings reported: the empty list, and no error.
C13_WitnessEmpty ==
    \E i \in FilingCalls :
        /\ last.calls[i].backing.n = 0
        /\ last.calls[i].out = Return(List(<<>>))

\* The statement each table kind names, as the source spells the attributes.
C14_Statement ==
    [balance_sheet |-> "balance_sheet", income_statement |-> "income",
     cash_flow_statement |-> "cashflow", comprehensive_income |-> "comprehensive_income",
     equity |-> "equity", cover_page |-> "cover"]

\* The last step was a call of get_latest_financials in which the library
\* did not fail.
FinancialsCall ==
    /\ last.op = "EdgarClient.get_latest_financials"
    /\ last.calls[1].backing.kind = "ok"

\* C14: for each of the six table kinds and each periodicity,
\* get_latest_financials reads the statement of exactly that kind from the
\* annual financials when annual is true and from the quarterly financials
\* otherwise; it returns the rows of that statement, each with a 'label'
\* field holding the row's index, when the frame is not empty, and [] when
\* the financials or the statement of that kind are absent.
C14_Financials ==
    FinancialsCall
    => LET a == last.args
           b == last.calls[1].backing
           period == IF a.annual THEN "annual" ELSE "quarterly"
           fin == b[period]
           kind == C14_Statement[a.table_type]
           rows == last.out.value.list
       IN  /\ last.out.kind = "return"
           /\ (~fin.present \/ fin.missing = kind) => rows = <<>>
           /\ (fin.present /\ fin.missing # kind)
                 => /\ Len(rows) = fin.rows
                    /\ \A j \in 1..fin.rows :
                          /\ DOMAIN rows[j] = {"label", "value"}
                          /\ rows[j].label
                                = [company |-> CompanyOf(a.entity_identifier),
                                   period |-> period, statement |-> kind, line |-> j]
                          /\ rows[j].value = 100 * j

\* The quarterly income statement of a company whose annual financials are
\* absent: its two rows, labelled.
C14_Witness ==
    /\ FinancialsCall
    /\ last.args.table_type = "income_statement"
    /\ ~last.args.annual
    /\ ~last.calls[1].backing.annual.present
    /\ last.out.kind = "return"
    /\ Len(last.out.value.list) = 2
    /\ last.out.value.list[2].label.statement = "income"
    /\ last.out.value.list[2].label.period = "quarterly"

---------------------------------------------------------------------------
(* Startup.                                                                *)

\* C15: a startup constructs the client exactly once; when the construction
\* succeeds app_lifespan yields a context holding the client it constructed,
\* which is the one bound to client_instance, the handle the tools read;
\* when it fails the error leaves app_lifespan, no context is yielded and
\* client_instance keeps the value it had before the startup.
C15_Lifespan ==
    [][last'.op = "app_lifespan"
         => /\ Len(last'.calls) = 1
            /\ last'.calls[1].method = "__init__"
            /\ IF last'.calls[1].out.kind = "return"
               THEN /\ last'.out = Return([client |-> last'.calls[1].out.value])
                    /\ client_instance' = last'.calls[1].out.value
                    /\ client_instance' # None
               ELSE /\ last'.out.kind = "raise"
                    /\ last'.out = last'.calls[1].out
                    /\ client_instance' = client_instance]_vars

\* A startup that failed in a process whose earlier startup had succeeded:
\* the error left app_lifespan and the client of the earlier startup is kept.
C15_Witness ==
    /\ last.op = "app_lifespan"
    /\ last.out.kind = "raise"
    /\ client_instance = TheClient

\* A startup that succeeded: the context holds the client the tools read.
C15_WitnessYield ==
    /\ last.op = "app_lifespan"
    /\ last.out = Return([client |-> client_instance])
    /\ client_instance = TheClient

\* C16: a call of a tool or resource, or of the cache lookup, returns a
\* payload that is no error only when a construction of the client has
\* succeeded earlier in the process (client_instance, once bound, is never
\* cleared); and the filings cache holds a list only then, so that
\* get_company_filings cannot answer from it in a process that never
\* constructed a client.
C16_NoServingBeforeInit ==
    /\ (/\ last.op \in WrappedFunctions \cup Lookups
        /\ last.out.kind = "return"
        /\ ~IsEnvelope(last.out))
          => client_instance # None
    /\ cache # <<>> => client_instance # None

\* get_company_filings answered from the cache in a process whose client
\* was constructed.
C16_Witness ==
    /\ last.op = "get_company_filings"
    /\ last.calls = <<>>
    /\ last.out.kind = "return"
    /\ ~IsEnvelope(last.out)
    /\ cache # <<>>
    /\ client_instance = TheClient

---------------------------------------------------------------------------
(* Retries and partial failure.                                            *)

\* Every call of a tool or resource makes at most one facade call.
AtMostOneAttempt ==
    last.op \in WrappedFunctions => Len(last.calls) <= 1

\* C17: no retries: a call of a tool or resource invokes at most one facade
\* method, at most once, and when that facade call fails the same call
\* returns the error envelope of that failure, with no second attempt.
C17_NoRetries ==
    last.op \in WrappedFunctions
    => /\ Len(last.calls) <= 1
       /\ (Len(last.calls) = 1 /\ last.calls[1].out.kind = "raise")
             => /\ IsEnvelope(last.out)
                /\ last.out.value.json.message = last.calls[1].out.exc.message

\* This step is a call of a tool or resource that returned an error envelope.
EnvelopeStep ==
    /\ last'.op \in WrappedFunctions
    /\ IsEnvelope(last'.out)

\* C18, as claimed: a call that returns an error envelope leaves the client
\* handle and the contents of the filings cache exactly as they were.
C18_AllOrNothing ==
    [][EnvelopeStep => (client_instance' = client_instance /\ cache' = cache)]_vars

\* C18, amended: a call that returns an error envelope leaves the client
\* handle as it was, and the filings cache too unless the call is
\* get_company_filings with page_size 0 whose lookup fetched the list from
\* the facade: the list is stored (replacing the entry held before) and the
\* division by zero that follows gives the envelope.
C18_StateAfterEnvelope ==
    [][EnvelopeStep
         => /\ client_instance' = client_instance
            /\ IF /\ last'.op = "get_company_filings"
                  /\ last'.args.page_size = 0
                  /\ Len(last'.calls) = 1
                  /\ last'.calls[1].out.kind = "return"
               THEN /\ cache' = <<[key |-> last'.args.entity_identifier,
                                   value |-> last'.calls[1].out.value]>>
                    /\ cache' # cache
                    /\ last'.out.value.json.code = 500
               ELSE cache' = cache]_vars

\* get_company_filings with page_size 0: the envelope of the division by
\* zero, and the list fetched by the call in the cache.
C18_Witness ==
    /\ last.op = "get_company_filings"
    /\ last.args.page_size = 0
    /\ IsEnvelope(last.out)
    /\ last.out.value.json.message = "integer division or modulo by zero"
    /\ Len(last.calls) = 1
    /\ last.args.entity_identifier \in CacheKeys(cache)
    /\ last.evicted # {}

---------------------------------------------------------------------------
(* Concurrent lookups.                                                     *)

\* The complete list of n filings of the company an identifier names, as
\* the facade reports it.
CompleteList(id, n) ==
    LET frame == FilingsFrame(CompanyOf(id), n)
    IN  [i \in 1..n |->
            [form |-> frame[i].form, filing_date |-> frame[i].filing_date,
             accession_number |-> frame[i].accession_number,
             isXBRL |-> (frame[i].isXBRL = 1)]]

\* Some request for this identifier fetched this list from the facade.
FetchedFor(id, value) ==
    \E r \in DOMAIN inflight :
        /\ inflight[r].id = id
        /\ inflight[r].f.calls # <<>>
        /\ inflight[r].f.calls[1].out = Return(value)

\* C19: under concurrent get_company_filings requests, in every
\* interleaving, a request fetches from the facade at most once (so that two
\* first lookups of one identifier cost at worst a duplicate fetch), a
\* request that returns gives the complete list fetched for its own
\* identifier, by itself when it fetched and by an earlier request for the
\* same identifier otherwise, and the cache holds only complete lists, each
\* under the identifier it was fetched for, one entry per identifier and no
\* more entries than its size.
C19_ConcurrentLookups ==
    /\ \A r \in DOMAIN inflight :
          LET q == inflight[r]
          IN  /\ Len(q.f.calls) <= 1
              /\ \A i \in 1..Len(q.f.calls) : q.f.calls[i].args.entity_identifier = q.id
              /\ (q.pc = "done" /\ q.out.kind = "return")
                    => LET n == q.out.value.json.pagination.total_items
                       IN  /\ q.out.value.json.filings = JsonFilings(CompleteList(q.id, n))
                           /\ FetchedFor(q.id, List(CompleteList(q.id, n)))
                           /\ q.f.calls # <<>>
                                 => q.f.calls[1].out = Return(List(CompleteList(q.id, n)))
    /\ \A i \in 1..Len(cache) :
          /\ cache[i].value.list = CompleteList(cache[i].key, Len(cache[i].value.list))
          /\ FetchedFor(cache[i].key, cache[i].value)
          /\ \A j \in 1..Len(cache) : cache[j].key = cache[i].key => j = i
    /\ Len(cache) <= lru_maxsize

\* Two first lookups of one identifier raced: both fetched, the source
\* reporting one filing more to the second, and each returned its own list.
C19_Witness ==
    /\ inflight # <<>>
    /\ inflight[1].pc = "done"
    /\ inflight[2].pc = "done"
    /\ inflight[1].id = inflight[2].id
    /\ inflight[1].f.calls # <<>>
    /\ inflight[2].f.calls # <<>>
    /\ inflight[1].out.kind = "return"
    /\ inflight[2].out.kind = "return"
    /\ inflight[1].out.value.json.pagination.total_items = 1
    /\ inflight[2].out.value.json.pagination.total_items = 2
    /\ Len(cache) = 1

---------------------------------------------------------------------------
(* The command line.                                                       *)

\* A run of the financials command that reached its handler.
FinancialsRun ==
    /\ cli.pc = "exited"
    /\ cli.args.command = "financials"
    /\ cli.handler = <<"handle_financials">>

C20_WitnessRows ==
    /\ FinancialsRun
    /\ cli.args.table_type = "balance_sheet"
    /\ ~cli.args.quarterly
    /\ cli.calls[2].out.kind = "return"
    /\ Len(cli.calls[2].out.value.list) = 1
    /\ cli.log = <<LogRecord("INFO", JsonDumps(cli.calls[2].out.value))>>

\* A run of the info command that reached its handler.
InfoRun ==
    /\ cli.pc = "exited"
    /\ cli.args.command = "info"
    /\ cli.handler = <<"handle_info">>

\* The facade method the info command is to call for a requested field.
InfoMethod(field) ==
    CASE field = "name" -> "get_company_name"
      [] field = "tickers" -> "get_company_tickers"
      [] field = "sic" -> "get_company_sic_description"
      [] field = "filings" -> "get_company_filings"
      [] OTHER -> "get_company_info"

\* The record the info command emits for the value its call returned: the
\* name or the SIC description as it is, the tickers joined by ", ", the
\* filings and the full information as JSON.
InfoRecord(field, value) ==
    CASE field \in {"name", "sic"} -> value
      [] field = "tickers" -> [joined |-> value]
      [] field = "filings" -> JsonDumps(List(JsonFilings(value.list)))
      [] OTHER -> JsonDumps(value)

\* C21: the info command calls exactly one facade method per run, with the
\* identifier as given: get_company_info without --field, and for the field
\* name / tickers / sic / filings only get_company_name / get_company_tickers /
\* get_company_sic_description / get_company_filings; when the call returns,
\* the command emits exactly one record, at INFO, with that result.
C21_InfoCommand ==
    InfoRun
    => /\ Len(cli.calls) = 2
       /\ cli.calls[1].method = "__init__"
       /\ cli.calls[2].method = InfoMethod(cli.args.field)
       /\ cli.calls[2].args = [entity_identifier |-> cli.args.entity_identifier]
       /\ cli.calls[2].out.kind = "return"
             => cli.log = <<LogRecord("INFO",
                                      InfoRecord(cli.args.field, cli.calls[2].out.value))>>

\* info MSFT --field sic: the one call is get_company_sic_description("MSFT"),
\* and its result is the one record.
C21_Witness ==
    /\ InfoRun
    /\ cli.args.entity_identifier = "MSFT"
    /\ cli.args.field = "sic"
    /\ cli.calls[2].method = "get_company_sic_description"
    /\ cli.calls[2].out.kind = "return"
    /\ cli.log = <<LogRecord("INFO", cli.calls[2].out.value)>>

\* info AAPL without --field: get_company_info, the information as JSON.
C21_WitnessFull ==
    /\ InfoRun
    /\ cli.args.field = NoArg
    /\ cli.calls[2].method = "get_company_info"
    /\ cli.calls[2].out.kind = "return"
    /\ Len(cli.log) = 1

\* info AAPL --field filings for a company with filings: the list as JSON.
C21_WitnessFilings ==
    /\ InfoRun
    /\ cli.args.field = "filings"
    /\ cli.calls[2].out.kind = "return"
    /\ Len(cli.calls[2].out.value.list) = MaxProcFilings
    /\ Len(cli.log) = 1

\* The steps of a complete run of main for a command: logging, the client,
\* then the command's handler, or the help when no command was given.
MainSteps(command) ==
    <<"setup_logging", "EdgarClient",
      IF command \in {"info", "financials"} THEN "handle_" \o command ELSE "print_help">>

\* Logging was configured once, with the level and the log file of the
\* arguments; a client that was constructed got the output directory given.
MainArguments ==
    /\ cli.setup_logging
          = <<[log_file |-> cli.args.globals.log_file,
               level |-> IF cli.args.globals.verbose THEN "DEBUG" ELSE "INFO"]>>
    /\ \A i \in 1..Len(cli.calls) :
          cli.calls[i].method = "__init__"
          => /\ i = 1
             /\ cli.calls[i].args = [output_dir |-> cli.args.globals.output_dir]

\* C22, as stated: every run of main configures logging once (DEBUG under
\* --verbose, INFO otherwise, with the log file given), then constructs the
\* client once with the output directory given, then dispatches to the one
\* handler of the command, or prints the help and calls no handler when no
\* command was given.
C22_EveryRun ==
    cli.pc = "exited"
    => /\ MainArguments
       /\ cli.trace = MainSteps(cli.args.command)
       /\ cli.help = (cli.args.command = NoArg)
       /\ Len(cli.handler) = IF cli.args.command = NoArg THEN 0 ELSE 1

\* How many of its steps a run of main took: it stops at the step that
\* raised.
StepsTaken ==
    IF cli.calls = <<>> THEN 1
    ELSE IF cli.calls[1].out.kind = "raise" THEN 2
    ELSE 3

\* C22, amended: every run of main takes its steps in the order logging,
\* client, handler-or-help, each at most once and with the arguments given;
\* it stops after logging exactly when the log file could not be opened, and
\* after the client exactly when the construction raised; otherwise exactly
\* one handler is called for a command, and for no command the help is
\* printed and no handler called, the client having been constructed.
C22_MainSteps ==
    cli.pc = "exited"
    => /\ MainArguments
       /\ cli.trace = SubSeq(MainSteps(cli.args.command), 1, StepsTaken)
       /\ (StepsTaken = 1) = (cli.out = Raise(BuiltinError("OSError", "cannot open log file")))
       /\ StepsTaken = 2 => cli.out = cli.calls[1].out
       /\ StepsTaken < 3 => cli.handler = <<>> /\ ~cli.help /\ cli.log = <<>>
       /\ StepsTaken = 3
             => /\ cli.help = (cli.args.command = NoArg)
                /\ cli.handler = IF cli.args.command = NoArg THEN <<>>
                                 ELSE <<"handle_" \o cli.args.command>>

\* A run with --verbose --output-dir data and no command: logging at DEBUG, the client
\* constructed, the help printed, no handler called.
C22_Witness ==
    /\ cli.pc = "exited"
    /\ cli.args.command = NoArg
    /\ cli.args.globals.verbose
    /\ cli.args.globals.output_dir = "data"
    /\ cli.setup_logging[1].level = "DEBUG"
    /\ cli.trace = <<"setup_logging", "EdgarClient", "print_help">>
    /\ cli.calls[1].args.output_dir = "data"
    /\ cli.calls[1].out.kind = "return"
    /\ cli.handler = <<>>
    /\ cli.help

\* A run of the info command whose client could not be constructed: no
\* handler is called.
C22_WitnessAbort ==
    /\ cli.pc = "exited"
    /\ cli.args.command = "info"
    /\ cli.trace = <<"setup_logging", "EdgarClient">>
    /\ cli.calls[1].out.kind = "raise"
    /\ cli.handler = <<>>

---------------------------------------------------------------------------
(* The diagnostic stream.                                                  *)

\* C23: a call in which process_error turns an exception into the envelope
\* has written, by the time the envelope is returned, exactly one entry to
\* stderr, carrying the type, the message and the stack trace of the original
\* exception; a call whose function returns has written nothing and its
\* value is passed through.
C23_DiagnosticStream ==
    pe.pc = "called"
    => IF pe.body.kind = "raise"
       THEN /\ pe.result.out = Return(JsonDumps(error_dict(pe.body.exc)))
            /\ Len(pe.result.stderr) = 1
            /\ pe.result.stderr[1].func = pe.func
            /\ pe.result.stderr[1].type = pe.body.exc.type
            /\ pe.result.stderr[1].message = pe.body.exc.message
            /\ pe.result.stderr[1].traceback = "format_exc"
       ELSE /\ pe.result.out = pe.body
            /\ pe.result.stderr = <<>>

\* get_company_filings raised ZeroDivisionError("boom"): one entry on
\* stderr naming the type and the message, and the envelope with code 500.
C23_Witness ==
    /\ pe.pc = "called"
    /\ pe.func = "get_company_filings"
    /\ pe.body = Raise(BuiltinError("ZeroDivisionError", "boom"))
    /\ pe.result.stderr
          = <<[func |-> "get_company_filings", type |-> "ZeroDivisionError",
               message |-> "boom", traceback |-> "format_exc"]>>
    /\ pe.result.out.kind = "return"
    /\ pe.result.out.value.json.code = DefaultErrorCode

\* A call that succeeds: nothing on stderr.
C23_WitnessSilent ==
    /\ pe.pc = "called"
    /\ pe.body.kind = "return"
    /\ pe.result.stderr = <<>>

---------------------------------------------------------------------------
(* The facade between calls.                                               *)

\* The companies a returned value of a facade operation speaks of.
CompaniesIn(call) ==
    LET v == call.out.value
    IN  CASE call.op = "EdgarClient.get_company_info" -> {v.to_dict}
          [] call.op = "EdgarClient.get_company_name" -> {v.name}
          [] call.op = "EdgarClient.get_company_tickers" -> {v.tickers}
          [] call.op = "EdgarClient.get_company_sic_description" -> {v.sic_description}
          [] call.op = "EdgarClient.get_company_filings"
                -> {v.list[i].accession_number[1] : i \in 1..Len(v.list)}
          [] call.op = "EdgarClient.get_latest_financials"
                -> {v.list[i].label.company : i \in 1..Len(v.list)}

\* C24: every call of a company-facing facade operation constructs the
\* company object exactly once, from the identifier passed to that call; what
\* it returns speaks of that company only, whatever the call before it
\* resolved; and the call leaves the client object and the filings cache as
\* they were (the facade keeps no resolved company).
C24_IndependentResolution ==
    [][last'.via = "facade"
       => /\ last'.Company = <<last'.args.entity_identifier>>
          /\ last'.out.kind = "return"
                => CompaniesIn(last') \subseteq {CompanyOf(last'.args.entity_identifier)}
          /\ client_instance' = client_instance
          /\ cache' = cache]_vars

\* get_company_name("MSFT") right after a call that resolved "AAPL": the
\* company is constructed from "MSFT" and the name is Microsoft's.
C24_Witness ==
    /\ last.via = "facade"
    /\ last.op = "EdgarClient.get_company_name"
    /\ last.after = "AAPL"
    /\ last.args.entity_identifier = "MSFT"
    /\ last.Company = <<"MSFT">>
    /\ last.out = Return([name |-> "Microsoft Corp"])
    /\ client_instance = TheClient

\* The filings of "AAPL" asked for after the financials of "MSFT".
C24_WitnessFilings ==
    /\ last.via = "facade"
    /\ last.op = "EdgarClient.get_company_filings"
    /\ last.after = "MSFT"
    /\ last.args.entity_identifier = "AAPL"
    /\ last.out.kind = "return"
    /\ Len(last.out.value.list) = MaxProcFilings
    /\ CompaniesIn(last) = {"Apple Inc."}

---------------------------------------------------------------------------
(* Shutdown.                                                               *)

\* C25: there is no teardown: leaving app_lifespan leaves client_instance
\* and the filings cache as they were, and no step of the server, whichever
\* operation takes it, makes client_instance None once a startup has bound
\* it.
C25_NoTeardown ==
    [][/\ last'.op = "app_lifespan_exit"
            => /\ client_instance' = client_instance
               /\ cache' = cache
       /\ client_instance # None => client_instance' # None]_vars

\* A shutdown of a server that has looked filings up: the client is still
\* bound and the list still cached.
C25_Witness ==
    /\ last.op = "app_lifespan_exit"
    /\ client_instance = TheClient
    /\ Len(cache) = 1

---------------------------------------------------------------------------
(* The single entry of the filings cache.                                  *)

\* The lookup of this step found the list of id in the cache.
HitStep(id) == id \in CacheKeys(cache) /\ last'.calls = <<>>

\* What a lookup of id that succeeded in this step obtained.
LookedUp(id) ==
    IF HitStep(id) THEN CacheValue(cache, id) ELSE last'.calls[1].out.value

\* C26: the filings cache never holds more than one entry; a lookup that
\* succeeds, from the cache or through the facade, leaves as the one entry
\* the list of its own identifier, replacing the entry of any other
\* identifier; a lookup that fails and every other operation leave the cache
\* as it is. The entry is therefore always that of the most recent
\* successful lookup.
C26_SingleEntry ==
    [][/\ Len(cache) <= 1 /\ Len(cache') <= 1
       /\ \A id \in Identifiers :
             LookupStep(id)
             => IF HitStep(id) \/ FetchedStep
                THEN /\ cache' = <<[key |-> id, value |-> LookedUp(id)]>>
                     /\ OwnList(LookedUp(id), id)
                ELSE cache' = cache
       /\ last'.op \notin Lookups => cache' = cache]_vars

\* A lookup for "MSFT" that succeeded while the list of "AAPL" was cached:
\* the one entry is now the list of "MSFT".
C26_Witness ==
    /\ last.op \in Lookups
    /\ last.args.entity_identifier = "MSFT"
    /\ Len(last.calls) = 1
    /\ last.calls[1].out.kind = "return"
    /\ Len(last.calls[1].out.value.list) > 0
    /\ last.evicted = {"AAPL"}
    /\ cache = <<[key |-> "MSFT", value |-> last.calls[1].out.value]>>

\* The last call was a lookup that failed: _fetch_company_filings raised, by
\* itself or inside get_company_filings.
FailedLookup ==
    /\ last.op \in Lookups
    /\ last.out.kind = "raise" \/ IsEnvelope(last.out)

\* C27: a failed lookup is never cached. The step in which
\* _fetch_company_filings raises for X (no client, or an error of the
\* facade) leaves the cache as it was, with no entry for X; and the next
\* lookup for X runs the body again: with a client bound it invokes the
\* facade's get_company_filings with X, without one it raises 'not
\* initialized' afresh, and in neither case is the earlier error replayed.
C27_FailuresNotCached ==
    [][/\ FailedLookup'
            => /\ cache' = cache
               /\ last'.args.entity_identifier \notin CacheKeys(cache')
       /\ (FailedLookup /\ LookupStep(last.args.entity_identifier))
            => IF client_instance # None
               THEN /\ Len(last'.calls) = 1
                    /\ last'.calls[1].method = "get_company_filings"
                    /\ last'.calls[1].args
                          = [entity_identifier |-> last.args.entity_identifier]
                    /\ (FetchedStep
                          => cache' = <<[key |-> last.args.entity_identifier,
                                         value |-> last'.calls[1].out.value]>>)
               ELSE /\ last'.calls = <<>>
                    /\ FailedLookup']_vars

\* A lookup for "AAPL" that went to the facade and returned its filings
\* with nothing cached before it, as the lookup after a failed first one does.
C27_WitnessFetched ==
    /\ last.op = "_fetch_company_filings"
    /\ last.args.entity_identifier = "AAPL"
    /\ Len(last.calls) = 1
    /\ last.out.kind = "return"
    /\ last.evicted = {}
    /\ cache = <<[key |-> "AAPL", value |-> last.out.value]>>

\* A lookup for "AAPL" that failed in the facade while the list of "MSFT"
\* was cached: the cache still holds the list of "MSFT" alone.
C27_Witness ==
    /\ FailedLookup
    /\ last.op = "_fetch_company_filings"
    /\ last.args.entity_identifier = "AAPL"
    /\ Len(last.calls) = 1
    /\ last.calls[1].out.kind = "raise"
    /\ CacheKeys(cache) = {"MSFT"}

---------------------------------------------------------------------------
(* The pages together.                                                     *)

RECURSIVE Concatenated(_)
\* The slices of a walk, one after the other.
Concatenated(slices) ==
    IF slices = <<>> THEN <<>> ELSE Head(slices) \o Concatenated(Tail(slices))

\* A walk that has read every page of the list the cache holds for it.
WalkDone ==
    /\ walk.pc = "done"
    /\ walk.id \in CacheKeys(cache)

\* C28: for a list of N filings and a page size P >= 1, the slices of the
\* pages 1, 2, ..., total_pages, put together in page order, are the full
\* list exactly, nothing left out, repeated or out of place; every page
\* before the last holds exactly P filings and the last one between 1 and P.
C28_PagesPartition ==
    WalkDone
    => LET full == JsonFilings(CacheValue(cache, walk.id).list)
           tp == walk.total_pages
       IN  /\ Len(walk.slices) = tp
           /\ Concatenated(walk.slices) = full
           /\ \A K \in 1..tp :
                 IF K < tp
                 THEN Len(walk.slices[K]) = walk.page_size
                 ELSE /\ Len(walk.slices[K]) >= 1
                      /\ Len(walk.slices[K]) <= walk.page_size

\* Three filings read in pages of two: a full page, then a last page of one.
C28_Witness ==
    /\ WalkDone
    /\ walk.page_size = 2
    /\ walk.total_pages = 2
    /\ Len(CacheValue(cache, walk.id).list) = 3
    /\ Len(walk.slices[1]) = 2
    /\ Len(walk.slices[2]) = 1
    /\ Concatenated(walk.slices) = JsonFilings(CacheValue(cache, walk.id).list)

\* A company without filings: no page at all, and nothing to put together.
C28_WitnessEmpty ==
    /\ WalkDone
    /\ walk.total_pages = 0
    /\ CacheValue(cache, walk.id).list = <<>>
    /\ walk.slices = <<>>

---------------------------------------------------------------------------
(* Pages below 1 and a page size of 0.                                     *)

\* The pagination totals of a list of N filings read in pages of P.
Totals(N, P) == [total_items |-> N, total_pages |-> CeilDiv(N, P)]

\* C29: pages are numbered from 1: for a cached list, a page size P >= 1 and
\* a page K <= 0, get_company_filings returns an empty 'filings' slice,
\* together with the total_items and total_pages it reports for a valid
\* page.
C29_NoPageBelowOne ==
    (PagedCall /\ last.args.page <= 0 /\ last.args.page_size >= 1)
    => /\ last.out.kind = "return"
       /\ ~IsEnvelope(last.out)
       /\ last.out.value.json.filings = <<>>
       /\ last.out.value.json.pagination.total_items
             = Totals(Len(PagedList), last.args.page_size).total_items
       /\ last.out.value.json.pagination.total_pages
             = Totals(Len(PagedList), last.args.page_size).total_pages

\* What does hold below page 1: the call returns a result with the totals of
\* the list, and page 0 is empty.
PageBelowOneTotals ==
    (PagedCall /\ last.args.page <= 0 /\ last.args.page_size >= 1)
    => /\ last.out.kind = "return"
       /\ ~IsEnvelope(last.out)
       /\ last.out.value.json.pagination
             = [page |-> last.args.page, page_size |-> last.args.page_size,
                total_items |-> Len(PagedList),
                total_pages |-> CeilDiv(Len(PagedList), last.args.page_size)]
       /\ last.args.page = 0 => last.out.value.json.filings = <<>>
\* C30: with page_size = 0, for every identifier whose lookup succeeds
\* (from the cache or through the facade) and every page, the wrapped
\* get_company_filings returns an error envelope with code 500, never a
\* pagination result, and the list the call looked up is the entry of the
\* filings cache afterwards.
C30_PageSizeZero ==
    [][\A id \in Identifiers :
          (/\ LookupStep(id)
           /\ last'.op = "get_company_filings"
           /\ last'.via = "module"
           /\ last'.args.page_size = 0
           /\ HitStep(id) \/ FetchedStep)
          => /\ IsEnvelope(last'.out)
             /\ last'.out.value.json.error = TRUE
             /\ last'.out.value.json.code = 500
             /\ "pagination" \notin DOMAIN last'.out.value.json
             /\ cache' = <<[key |-> id, value |-> LookedUp(id)]>>]_vars

\* get_company_filings("AAPL", page = 2, page_size = 0) with nothing cached:
\* the facade returned three filings, the call returned the envelope of the
\* division by zero, and the three filings are cached.
C30_Witness ==
    /\ last.op = "get_company_filings"
    /\ last.via = "module"
    /\ last.args = [entity_identifier |-> "AAPL", page |-> 2, page_size |-> 0]
    /\ Len(last.calls) = 1
    /\ last.calls[1].out.kind = "return"
    /\ Len(last.calls[1].out.value.list) = 3
    /\ IsEnvelope(last.out)
    /\ last.out.value.json.code = 500
    /\ cache = <<[key |-> "AAPL", value |-> last.calls[1].out.value]>>

\* The same call answered from the cache: the envelope again, the entry kept.
C30_WitnessHit ==
    /\ last.op = "get_company_filings"
    /\ last.args.page_size = 0
    /\ last.calls = <<>>
    /\ IsEnvelope(last.out)
    /\ last.out.value.json.code = 500
    /\ CacheKeys(cache) = {last.args.entity_identifier}

====
